---- MODULE Spec2Model ----
(***************************************************************************)
(* Verification model of the vfx-rs numeric core as it is written in the   *)
(* repository's Python verification scripts and parity tests: FastMath     *)
(* (fast_log2 / fast_exp2 / fast_pow), the CDL engine (apply_cdl_manual),  *)
(* the 3D LUT interpolators and the 1D LUT.                                *)
(*                                                                         *)
(* Numbers are IEEE-754 binary32 values held as their three bit fields     *)
(* [sign, expo, frac], so struct.pack('f')/unpack('I') is the identity on  *)
(* the record and the bit masks of FastMath act on the fields.  Arithmetic *)
(* is round-to-nearest-even binary32 with signed zeros, denormals,         *)
(* infinities and NaN.  (The scripts evaluate some expressions in binary64 *)
(* before storing to float32 arrays; the model rounds every operation to   *)
(* binary32, as the engine the scripts mirror does.)                       *)
(***************************************************************************)
EXTENDS Integers, Naturals, Sequences, FiniteSets, TLC

\* ------------------------------------------------------------------------
\* binary32 layout
\* ------------------------------------------------------------------------
EXP_BIAS == 127
EXP_SHIFT == 23
ExpFieldMax == 2 * EXP_BIAS + 1
MantBits == EXP_SHIFT + 1
MinExp == 1 - EXP_BIAS - EXP_SHIFT

Pow2[n \in 0..30] == IF n = 0 THEN 1 ELSE 2 * Pow2[n - 1]

Hidden == Pow2[EXP_SHIFT]

Max(a, b) == IF a >= b THEN a ELSE b
Min(a, b) == IF a <= b THEN a ELSE b

RECURSIVE BitLen(_)
BitLen(m) == IF m = 0 THEN 0 ELSE 1 + BitLen(m \div 2)

F32(s, e, f) == [sign |-> s, expo |-> e, frac |-> f]

PosZero == F32(0, 0, 0)
NegZero == F32(1, 0, 0)
One == F32(0, EXP_BIAS, 0)
PosInf == F32(0, ExpFieldMax, 0)
NegInf == F32(1, ExpFieldMax, 0)
QNaN == F32(0, ExpFieldMax, Pow2[EXP_SHIFT - 1])

IsNaN(x) == x.expo = ExpFieldMax /\ x.frac # 0
IsInf(x) == x.expo = ExpFieldMax /\ x.frac = 0
IsZero(x) == x.expo = 0 /\ x.frac = 0
IsFinite(x) == x.expo # ExpFieldMax

\* integer significand and exponent of a finite value: |x| = Sig(x) * 2^Ex(x)
Sig(x) == IF x.expo = 0 THEN x.frac ELSE Hidden + x.frac
Ex(x) == IF x.expo = 0 THEN MinExp ELSE x.expo - (EXP_BIAS + EXP_SHIFT)

Neg(x) == F32(1 - x.sign, x.expo, x.frac)
Abs(x) == F32(0, x.expo, x.frac)

\* magnitude order on the fields (valid for every non-NaN value)
MagLt(a, b) == a.expo < b.expo \/ (a.expo = b.expo /\ a.frac < b.frac)

FEq(a, b) ==
    /\ ~IsNaN(a) /\ ~IsNaN(b)
    /\ \/ (IsZero(a) /\ IsZero(b))
       \/ a = b

FLt(a, b) ==
    /\ ~IsNaN(a) /\ ~IsNaN(b)
    /\ ~(IsZero(a) /\ IsZero(b))
    /\ \/ (a.sign = 1 /\ b.sign = 0)
       \/ (a.sign = 0 /\ b.sign = 0 /\ MagLt(a, b))
       \/ (a.sign = 1 /\ b.sign = 1 /\ MagLt(b, a))

FLe(a, b) == FLt(a, b) \/ FEq(a, b)
FGt(a, b) == FLt(b, a)
FGe(a, b) == FLe(b, a)

\* Round the exact value (-1)^s * (M + d) * 2^E, 0 <= d < 1 and d # 0 iff
\* sticky, to the nearest binary32 (ties to even); overflow gives infinity.
RoundPack(s, M, E, sticky) ==
    IF M = 0 THEN F32(s, 0, 0)
    ELSE
      LET L == BitLen(M)
          sh == Max(L - MantBits, MinExp - E)
          q == IF sh <= 0 THEN M * Pow2[-sh]
               ELSE IF sh > 30 THEN 0 ELSE M \div Pow2[sh]
          r == IF sh <= 0 \/ sh > 30 THEN 0 ELSE M % Pow2[sh]
          up == IF sh <= 0 THEN FALSE
                ELSE IF sh > 31 THEN FALSE
                ELSE IF sh = 31 THEN M > Pow2[30] \/ (M = Pow2[30] /\ sticky)
                ELSE LET half == Pow2[sh - 1]
                     IN  r > half \/ (r = half /\ (sticky \/ (q % 2) = 1))
          m0 == IF up THEN q + 1 ELSE q
          m1 == IF m0 >= 2 * Hidden THEN m0 \div 2 ELSE m0
          e1 == IF m0 >= 2 * Hidden THEN E + sh + 1 ELSE E + sh
          ef == e1 + EXP_BIAS + EXP_SHIFT
      IN  IF m1 < Hidden THEN F32(s, 0, m1)
          ELSE IF ef >= ExpFieldMax THEN F32(s, ExpFieldMax, 0)
          ELSE F32(s, ef, m1 - Hidden)

\* significand shifted up to 24 bits (denormals), with the matching exponent
NormShift(x) == MantBits - BitLen(Sig(x))
NSig(x) == Sig(x) * Pow2[NormShift(x)]
NEx(x) == Ex(x) - NormShift(x)

FromInt(n) == IF n < 0 THEN RoundPack(1, -n, 0, FALSE) ELSE RoundPack(0, n, 0, FALSE)

FMul(a, b) ==
    LET s == (a.sign + b.sign) % 2 IN
    IF IsNaN(a) \/ IsNaN(b) THEN QNaN
    ELSE IF (IsInf(a) /\ IsZero(b)) \/ (IsZero(a) /\ IsInf(b)) THEN QNaN
    ELSE IF IsInf(a) \/ IsInf(b) THEN F32(s, ExpFieldMax, 0)
    ELSE IF IsZero(a) \/ IsZero(b) THEN F32(s, 0, 0)
    ELSE
      LET ma == NSig(a)
          mb == NSig(b)
          ah == ma \div 4096
          al == ma % 4096
          bh == mb \div 4096
          bl == mb % 4096
          hi == ah * bh
          mid == ah * bl + al * bh
          lo == al * bl
          t == mid + (lo \div 4096)
          u == hi + (t \div 4096)
          rem == (t % 4096) * 4096 + (lo % 4096)
          M == (u * 64) + (rem \div 262144)
          st == (rem % 262144) # 0
      IN  RoundPack(s, M, NEx(a) + NEx(b) + 18, st)

FAdd(a, b) ==
    IF IsNaN(a) \/ IsNaN(b) THEN QNaN
    ELSE IF IsInf(a) /\ IsInf(b) THEN (IF a.sign = b.sign THEN a ELSE QNaN)
    ELSE IF IsInf(a) THEN a
    ELSE IF IsInf(b) THEN b
    ELSE IF IsZero(a) /\ IsZero(b) THEN (IF a.sign = 1 /\ b.sign = 1 THEN NegZero ELSE PosZero)
    ELSE IF IsZero(a) THEN b
    ELSE IF IsZero(b) THEN a
    ELSE
      LET big == IF MagLt(a, b) THEN b ELSE a
          sml == IF MagLt(a, b) THEN a ELSE b
          d == NEx(big) - NEx(sml)
          Mb == NSig(big) * 64
          Ms0 == NSig(sml) * 64
          Ms == IF d > 30 THEN 0 ELSE Ms0 \div Pow2[d]
          st == IF d > 30 THEN TRUE ELSE (Ms0 % Pow2[d]) # 0
          E == NEx(big) - 6
      IN  IF big.sign = sml.sign THEN RoundPack(big.sign, Mb + Ms, E, st)
          ELSE IF Mb = Ms /\ ~st THEN PosZero
          ELSE IF st THEN RoundPack(big.sign, Mb - Ms - 1, E, TRUE)
          ELSE RoundPack(big.sign, Mb - Ms, E, FALSE)

FSub(a, b) == FAdd(a, Neg(b))

\* long division of two 24-bit significands, n quotient bits
RECURSIVE DivBits(_, _, _, _)
DivBits(rem, den, n, acc) ==
    IF n = 0 THEN <<acc, rem>>
    ELSE IF 2 * rem >= den THEN DivBits(2 * rem - den, den, n - 1, 2 * acc + 1)
    ELSE DivBits(2 * rem, den, n - 1, 2 * acc)

FDiv(a, b) ==
    LET s == (a.sign + b.sign) % 2 IN
    IF IsNaN(a) \/ IsNaN(b) THEN QNaN
    ELSE IF (IsInf(a) /\ IsInf(b)) \/ (IsZero(a) /\ IsZero(b)) THEN QNaN
    ELSE IF IsInf(a) \/ IsZero(b) THEN F32(s, ExpFieldMax, 0)
    ELSE IF IsInf(b) \/ IsZero(a) THEN F32(s, 0, 0)
    ELSE
      LET ma == NSig(a)
          mb == NSig(b)
          q0 == IF ma >= mb THEN 1 ELSE 0
          r0 == IF ma >= mb THEN ma - mb ELSE ma
          qr == DivBits(r0, mb, 26, q0)
      IN  RoundPack(s, qr[1], NEx(a) - NEx(b) - 26, qr[2] # 0)

\* the rational n/d rounded to binary32 (numpy.linspace samples, grid coordinates)
FromRat(n, d) == FDiv(FromInt(n), FromInt(d))

\* ------------------------------------------------------------------------
\* Python call results: a returned value or a raised exception
\* ------------------------------------------------------------------------
Ret(v) == [exc |-> "none", val |-> v]
Raise(e) == [exc |-> e, val |-> PosZero]

\* int(x) for a finite x, truncating toward zero; ValueError / OverflowError
\* for NaN / infinity as CPython raises them
TruncMag(x) ==
    IF Ex(x) >= 0 THEN Sig(x) * Pow2[Min(Ex(x), 6)]
    ELSE IF -Ex(x) > 30 THEN 0 ELSE Sig(x) \div Pow2[-Ex(x)]
HasFraction(x) ==
    IF Ex(x) >= 0 THEN FALSE
    ELSE IF -Ex(x) > 30 THEN Sig(x) # 0 ELSE (Sig(x) % Pow2[-Ex(x)]) # 0
PyInt(x) == IF x.sign = 1 THEN -TruncMag(x) ELSE TruncMag(x)
MathFloor(x) == IF x.sign = 1 /\ HasFraction(x) THEN -TruncMag(x) - 1 ELSE PyInt(x)

\* ------------------------------------------------------------------------
\* FastMath: OCIO polynomial coefficients (binary32 fields of the literals)
\* ------------------------------------------------------------------------
PNLOG5 == F32(0, 122, 3657061)
PNLOG4 == F32(1, 125, 5588951)
PNLOG3 == F32(0, 127, 5294460)
PNLOG2 == F32(1, 128, 6504497)
PNLOG1 == F32(0, 129, 2289484)
PNLOG0 == F32(1, 128, 3356970)

PNEXP4 == F32(0, 120, 6143594)
PNEXP3 == F32(0, 122, 5573112)
PNEXP2 == F32(0, 124, 7814341)
PNEXP1 == F32(0, 126, 3238067)
PNEXP0 == F32(0, 127, 22)

ExpLow == FromInt(-126)
ExpHigh == FromInt(128)

\* a mantissa word that drops the lowest fraction bit
MantissaBits_DropLow(x) == F32(x.sign, EXP_BIAS, (x.frac \div 2) * 2)

\* (bits & ~EXP_MASK) | (EXP_BIAS << EXP_SHIFT): sign and fraction kept,
\* exponent field replaced by the bias
MantissaBits(x) == F32(x.sign, EXP_BIAS, x.frac)

\* ((bits & EXP_MASK) >> EXP_SHIFT) - EXP_BIAS
ExponentOf(x) == x.expo - EXP_BIAS

Log2Poly(m) ==
    FAdd(PNLOG0, FMul(m,
      FAdd(PNLOG1, FMul(m,
        FAdd(PNLOG2, FMul(m,
          FAdd(PNLOG3, FMul(m,
            FAdd(PNLOG4, FMul(m, PNLOG5))))))))))

fast_log2(x) ==
    IF FLe(x, PosZero) THEN Ret(NegInf)
    ELSE Ret(FAdd(Log2Poly(MantissaBits(x)), FromInt(ExponentOf(x))))

Exp2Poly(fraction) ==
    FAdd(PNEXP0, FMul(fraction,
      FAdd(PNEXP1, FMul(fraction,
        FAdd(PNEXP2, FMul(fraction,
          FAdd(PNEXP3, FMul(fraction, PNEXP4))))))))

\* ((floor_x + EXP_BIAS) << EXP_SHIFT) & 0xFFFFFFFF, as bit fields
ZfBits(floor_x) ==
    LET n == floor_x + EXP_BIAS
    IN  F32((n \div (ExpFieldMax + 1)) % 2, n % (ExpFieldMax + 1), 0)

\* verify_fast_pow.py / verify_cdl_power.py: floor_x = int(math.floor(x))
FloorFastPow(x) == MathFloor(x)

\* verify_cdl_final.py: floor_x = int(x) if x >= 0 else int(x) - 1
FloorCdlFinal(x) == IF FGe(x, PosZero) THEN PyInt(x) ELSE PyInt(x) - 1

Exp2Body(x, floor_x) ==
    FMul(ZfBits(floor_x), Exp2Poly(FSub(x, FromInt(floor_x))))

fast_exp2(x) ==
    IF FLt(x, ExpLow) THEN Ret(PosZero)
    ELSE IF FGe(x, ExpHigh) THEN Ret(PosInf)
    ELSE IF IsNaN(x) THEN Raise("ValueError")
    ELSE Ret(Exp2Body(x, FloorFastPow(x)))

fast_exp2_final(x) ==
    IF FLt(x, ExpLow) THEN Ret(PosZero)
    ELSE IF FGe(x, ExpHigh) THEN Ret(PosInf)
    ELSE IF IsNaN(x) THEN Raise("ValueError")
    ELSE Ret(Exp2Body(x, FloorCdlFinal(x)))

\* mutant: only a negative base takes the early return
fast_pow_StrictGuard(base, exp) ==
    IF FLt(base, PosZero) THEN Ret(PosZero)
    ELSE fast_exp2(FMul(exp, fast_log2(base).val))

fast_pow(base, exp) ==
    IF FLe(base, PosZero) THEN Ret(PosZero)
    ELSE fast_exp2(FMul(exp, fast_log2(base).val))

\* mutant: the sentinel for base <= 0 is 1.0 instead of 0.0
fast_pow_final_SentinelOne(base, exp) ==
    IF FLe(base, PosZero) THEN Ret(One)
    ELSE fast_exp2_final(FMul(exp, fast_log2(base).val))

fast_pow_final(base, exp) ==
    IF FLe(base, PosZero) THEN Ret(PosZero)
    ELSE fast_exp2_final(FMul(exp, fast_log2(base).val))

\* ------------------------------------------------------------------------
\* CDL engine: stages of apply_cdl_manual
\* ------------------------------------------------------------------------
LUMA_R == F32(0, 124, 5878736)
LUMA_G == F32(0, 126, 3610457)
LUMA_B == F32(0, 123, 1301912)
\* 1e-9, the saturation epsilon of verify_cdl_final.py
SatEpsilon == F32(0, 97, 618591)

\* Python's builtin min(1.0, v) and max(0.0, w): the first argument unless
\* the second compares smaller / greater
PyMin(a, b) == IF FLt(b, a) THEN b ELSE a
PyMax(a, b) == IF FGt(b, a) THEN b ELSE a

\* v = rgb[c] * slope[c] + offset[c]
SopStage(x, slope, offset) == FAdd(FMul(x, slope), offset)

\* mutant: clamp at 0 only, as an end-only-clamping engine would
ClampStage_LowOnly(v) == PyMax(PosZero, v)

\* v = max(0.0, min(1.0, v))
ClampStage(v) == PyMax(PosZero, PyMin(One, v))

\* if power[c] != 1.0: rgb[c] = fast_pow(v, power[c]) else: rgb[c] = v
\* mutant: the power stage is never skipped
PowerApplies_Always(p) == TRUE

PowerApplies(p) == ~FEq(p, One)
PowerStage(v, p) == IF PowerApplies(p) THEN fast_pow_final(v, p) ELSE Ret(v)

\* if abs(sat - 1.0) > 1e-9
SaturationApplies(sat) == FGt(Abs(FSub(sat, One)), SatEpsilon)

Luma(src) ==
    FAdd(FAdd(FMul(src[1], LUMA_R), FMul(src[2], LUMA_G)), FMul(src[3], LUMA_B))

SaturationStage(src, sat) ==
    IF SaturationApplies(sat)
    THEN LET luma == Luma(src)
         IN  [k \in 1..3 |-> FAdd(luma, FMul(sat, FSub(src[k], luma)))]
    ELSE src

\* numpy.clip(x, 0, 1) on one element: NaN stays NaN
NpClip(x) ==
    IF IsNaN(x) THEN x
    ELSE IF FLt(x, PosZero) THEN PosZero
    ELSE IF FGt(x, One) THEN One
    ELSE x

FinalClamp(rgb) == [k \in 1..3 |-> NpClip(rgb[k])]

\* ------------------------------------------------------------------------
\* Parity test reference: TestCDL.apply_cdl_reference and assert_close
\* ------------------------------------------------------------------------
RTOL == F32(0, 113, 5355287)
ATOL == F32(0, 107, 407485)

\* numpy.maximum(x, 0.0): NaN stays NaN
NpMaximum0(x) == IF IsNaN(x) THEN x ELSE IF FLt(x, PosZero) THEN PosZero ELSE x

\* result ** power as far as it is exact: x ** 1 = x, 0 ** p = 0 and
\* 1 ** p = 1; elsewhere the polynomial pow stands for numpy's power
NpPower(x, p) ==
    IF FEq(p, One) THEN x
    ELSE IF IsZero(x) THEN PosZero
    ELSE IF FEq(x, One) THEN One
    ELSE fast_pow(x, p).val

apply_cdl_reference(rgb, slope, offset, power, saturation) ==
    LET result == [k \in 1..3 |->
                     NpPower(NpMaximum0(FAdd(FMul(rgb[k], slope[k]), offset[k])), power[k])]
        luma == FAdd(FAdd(FMul(LUMA_R, result[1]), FMul(LUMA_G, result[2])),
                     FMul(LUMA_B, result[3]))
    IN  [k \in 1..3 |-> FAdd(luma, FMul(saturation, FSub(result[k], luma)))]

\* numpy.testing.assert_allclose on one element
IsClose(actual, expected, rtol, atol) ==
    \/ (IsNaN(actual) /\ IsNaN(expected))
    \/ actual = expected
    \/ FLe(Abs(FSub(actual, expected)), FAdd(atol, FMul(rtol, Abs(expected))))

AllClose(actual, expected, rtol, atol) ==
    \A k \in 1..3 : IsClose(actual[k], expected[k], rtol, atol)

\* ------------------------------------------------------------------------
\* Test data: grades and pixels
\* ------------------------------------------------------------------------
Triple(a, b, c) == <<a, b, c>>
Grade(s, o, p, sat) == [slope |-> s, offset |-> o, power |-> p, sat |-> sat]

F1_1 == F32(0, 127, 838861)
F0_9 == F32(0, 126, 6710886)
F0_02 == F32(0, 121, 2348810)
F1_2 == F32(0, 127, 1677722)
F0_1 == F32(0, 123, 5033165)
Half == F32(0, 126, 0)
Two == F32(0, 128, 0)
MaxF32 == F32(0, 254, 8388607)
\* 2^24: a power for which power * log2_approx(1.0) exceeds 128
HugePower == F32(0, 151, 0)

CDL_IDENTITY == Grade(Triple(One, One, One), Triple(PosZero, PosZero, PosZero),
                      Triple(One, One, One), One)
CDL_WARMUP == Grade(Triple(F1_1, One, F0_9), Triple(F0_02, PosZero, Neg(F0_02)),
                    Triple(One, One, One), F1_1)
CDL_CONTRAST == Grade(Triple(One, One, One), Triple(Neg(F0_1), Neg(F0_1), Neg(F0_1)),
                      Triple(F1_2, F1_2, F1_2), One)
\* grades outside the tests: negative and overflowing slopes and offsets,
\* fractional and very large powers, zero, negative and very large saturation
CDL_NEGATIVE == Grade(Triple(Neg(One), Two, Half), Triple(Half, Neg(One), F0_1),
                      Triple(Half, Two, F1_2), PosZero)
CDL_OVERFLOW == Grade(Triple(MaxF32, Neg(MaxF32), Two), Triple(Neg(MaxF32), MaxF32, MaxF32),
                      Triple(F1_2, One, Half), Neg(Two))
CDL_HUGESAT == Grade(Triple(One, One, Half), Triple(PosZero, F0_1, PosZero),
                     Triple(One, F1_2, One), MaxF32)
CDL_HUGEPOWER == Grade(Triple(One, One, One), Triple(PosZero, PosZero, PosZero),
                       Triple(HugePower, HugePower, One), Half)

CDL_INVERT == Grade(Triple(Neg(One), Neg(Two), Neg(Half)), Triple(One, One, Half),
                    Triple(Two, Half, F1_2), One)

Grades == {CDL_IDENTITY, CDL_WARMUP, CDL_CONTRAST, CDL_NEGATIVE, CDL_OVERFLOW,
           CDL_HUGESAT, CDL_HUGEPOWER, CDL_INVERT}

\* channel values k/PixelSteps from one step below 0 to one step above 1
PixelSteps == 2
GridChannel == {FromRat(k, PixelSteps) : k \in -1..(PixelSteps + 1)}
GridPixels == {Triple(r, g, b) : r \in GridChannel, g \in GridChannel, b \in GridChannel}

\* conftest.rgb_ramp_2d: a 16x16 ramp of k/255, g rolled by 4 rows and b by
\* 8 columns
RampSide == 16
RampLast == RampSide * RampSide - 1
RampValue(i, j) == FromRat(RampSide * i + j, RampLast)
RampPixel(i, j) ==
    Triple(RampValue(i, j), RampValue((i - 4) % RampSide, j), RampValue(i, (j - 8) % RampSide))
RampPixels == {RampPixel(i, j) : i \in 0..(RampSide - 1), j \in 0..(RampSide - 1)}

InUnit(x) == FGe(x, PosZero) /\ FLe(x, One)
InUnitCube(p) == \A k \in 1..3 : InUnit(p[k])

\* ------------------------------------------------------------------------
\* LUT engine, in exact arithmetic.  A coordinate is the integer a standing
\* for a / ((size-1) * Sub); a table entry is an integer over the table's
\* denominator den.  (Rounding of binary32 coordinates is not part of this
\* half of the model.)
\* ------------------------------------------------------------------------
MaxLutSize == 3
Sub == 3
LutSizes == 2..MaxLutSize

\* idx = 3 * (b_idx + size * (g_idx + size * r_idx))
FlatIndex(size, r_idx, g_idx, b_idx) == 3 * (b_idx + size * (g_idx + size * r_idx))

\* grid coordinate of channel ch (0-based) stored at flat position p (0-based)
\* by a producer that nests r, g, b with b innermost
GridCoord(size, p) ==
    LET cell == p \div 3
    IN  <<cell \div (size * size), (cell \div size) % size, cell % size>>

\* test_lut_parity.identity_3d_lut_data, flattened: (r, g, b) / (size-1)
IdentityLut(size) ==
    [size |-> size, den |-> size - 1, kind |-> "identity",
     data |-> [p \in 1..(3 * size * size * size) |->
                 GridCoord(size, p - 1)[((p - 1) % 3) + 1]]]

\* test_lut_parity.contrast_3d_lut_data: clip(0.5 + (x - 0.5) * 1.5, 0, 1)
\* per channel, over the denominator 4 * (size-1)
ContrastLut(size) ==
    [size |-> size, den |-> 4 * (size - 1), kind |-> "contrast",
     data |-> [p \in 1..(3 * size * size * size) |->
                 Min(Max(6 * GridCoord(size, p - 1)[((p - 1) % 3) + 1] - (size - 1), 0),
                     4 * (size - 1))]]

\* verify_lut3d.create_test_lut: 0.8 of the own axis plus 0.1 of each other
\* axis, over the denominator 10 * (size-1)
TestLut(size) ==
    [size |-> size, den |-> 10 * (size - 1), kind |-> "test",
     data |-> [p \in 1..(3 * size * size * size) |->
                 LET g == GridCoord(size, p - 1)
                 IN  7 * g[((p - 1) % 3) + 1] + g[1] + g[2] + g[3]]]

\* a LUT outside the tests: 1 on the grey diagonal r = g = b, 0 elsewhere
DiagonalLut(size) ==
    [size |-> size, den |-> 1, kind |-> "diagonal",
     data |-> [p \in 1..(3 * size * size * size) |->
                 LET g == GridCoord(size, p - 1)
                 IN  IF g[1] = g[2] /\ g[2] = g[3] THEN 1 ELSE 0]]

Luts == UNION {{IdentityLut(size), ContrastLut(size), TestLut(size), DiagonalLut(size)} :
                 size \in LutSizes}

\* np.clip(r, 0, 1)
ClipCoord(a, n) == Min(Max(a, 0), n * Sub)

\* mutant: the fraction is the fractional part of r * n
CellFraction_FractionalPart(a, n) == ClipCoord(a, n) % Sub

\* mutant: the cell index is not capped at n - 1
CellIndex_NoCap(a, n) == ClipCoord(a, n) \div Sub

\* ri = int(min(r * n, n - 1));  rf = r * n - ri  (as a numerator over Sub)
CellIndex(a, n) == Min(ClipCoord(a, n) \div Sub, n - 1)
CellFraction(a, n) == ClipCoord(a, n) - CellIndex(a, n) * Sub

\* get(r_idx, g_idx, b_idx)[ch], ch 0-based
Get(lut, r_idx, g_idx, b_idx, ch) ==
    lut.data[FlatIndex(lut.size, r_idx, g_idx, b_idx) + ch + 1]

Corners(lut, ri, gi, bi, ch) ==
    [c000 |-> Get(lut, ri, gi, bi, ch), c100 |-> Get(lut, ri + 1, gi, bi, ch),
     c010 |-> Get(lut, ri, gi + 1, bi, ch), c110 |-> Get(lut, ri + 1, gi + 1, bi, ch),
     c001 |-> Get(lut, ri, gi, bi + 1, ch), c101 |-> Get(lut, ri + 1, gi, bi + 1, ch),
     c011 |-> Get(lut, ri, gi + 1, bi + 1, ch), c111 |-> Get(lut, ri + 1, gi + 1, bi + 1, ch)]

CornerOffsets(size, ri, gi, bi) ==
    {FlatIndex(size, ri + dr, gi + dg, bi + db) : dr \in {0, 1}, dg \in {0, 1}, db \in {0, 1}}

\* mutant: T1 walks through c101 instead of c110
T1_WrongCorner(c, rf, gf, bf) ==
    Sub * c.c000 + rf * (c.c100 - c.c000) + gf * (c.c101 - c.c100) + bf * (c.c111 - c.c101)

\* the six branch formulas, as numerators over Sub
T1(c, rf, gf, bf) ==
    Sub * c.c000 + rf * (c.c100 - c.c000) + gf * (c.c110 - c.c100) + bf * (c.c111 - c.c110)
T2(c, rf, gf, bf) ==
    Sub * c.c000 + rf * (c.c100 - c.c000) + bf * (c.c101 - c.c100) + gf * (c.c111 - c.c101)
T3(c, rf, gf, bf) ==
    Sub * c.c000 + bf * (c.c001 - c.c000) + rf * (c.c101 - c.c001) + gf * (c.c111 - c.c101)
\* mutant: T6 walks through c101 instead of c011
T6_WrongCorner(c, rf, gf, bf) ==
    Sub * c.c000 + bf * (c.c001 - c.c000) + gf * (c.c101 - c.c001) + rf * (c.c111 - c.c101)
T6(c, rf, gf, bf) ==
    Sub * c.c000 + bf * (c.c001 - c.c000) + gf * (c.c011 - c.c001) + rf * (c.c111 - c.c011)
T5(c, rf, gf, bf) ==
    Sub * c.c000 + gf * (c.c010 - c.c000) + bf * (c.c011 - c.c010) + rf * (c.c111 - c.c011)
T4(c, rf, gf, bf) ==
    Sub * c.c000 + gf * (c.c010 - c.c000) + rf * (c.c110 - c.c010) + bf * (c.c111 - c.c110)

\* mutant: the first comparison is rf >= gf, so ties go to the first group
TetraBranch_TieFirst(rf, gf, bf) ==
    IF rf >= gf THEN (IF gf > bf THEN 1 ELSE IF rf > bf THEN 2 ELSE 3)
    ELSE (IF bf > gf THEN 6 ELSE IF bf > rf THEN 5 ELSE 4)

\* the branch the comparisons select
TetraBranch(rf, gf, bf) ==
    IF rf > gf THEN (IF gf > bf THEN 1 ELSE IF rf > bf THEN 2 ELSE 3)
    ELSE (IF bf > gf THEN 6 ELSE IF bf > rf THEN 5 ELSE 4)

BranchValues(c, rf, gf, bf) ==
    <<T1(c, rf, gf, bf), T2(c, rf, gf, bf), T3(c, rf, gf, bf),
      T4(c, rf, gf, bf), T5(c, rf, gf, bf), T6(c, rf, gf, bf)>>

\* mutant: branch T1 walks through c101 instead of c110
Tetrahedral_WrongCorner(c, rf, gf, bf) ==
    IF rf > gf THEN
        IF gf > bf THEN Sub * c.c000 + rf * (c.c100 - c.c000) + gf * (c.c101 - c.c100) + bf * (c.c111 - c.c101)
        ELSE IF rf > bf THEN Sub * c.c000 + rf * (c.c100 - c.c000) + bf * (c.c101 - c.c100) + gf * (c.c111 - c.c101)
        ELSE Sub * c.c000 + bf * (c.c001 - c.c000) + rf * (c.c101 - c.c001) + gf * (c.c111 - c.c101)
    ELSE
        IF bf > gf THEN Sub * c.c000 + bf * (c.c001 - c.c000) + gf * (c.c011 - c.c001) + rf * (c.c111 - c.c011)
        ELSE IF bf > rf THEN Sub * c.c000 + gf * (c.c010 - c.c000) + bf * (c.c011 - c.c010) + rf * (c.c111 - c.c011)
        ELSE Sub * c.c000 + gf * (c.c010 - c.c000) + rf * (c.c110 - c.c010) + bf * (c.c111 - c.c110)

\* one channel of the tetrahedral interpolation, as a numerator over Sub
Tetrahedral(c, rf, gf, bf) == BranchValues(c, rf, gf, bf)[TetraBranch(rf, gf, bf)]

\* mutant: the red blend weighs g0 by 1 instead of 1 - rf
Trilinear_NoComplement(c, rf, gf, bf) ==
    LET b0 == c.c000 * (Sub - bf) + c.c001 * bf
        b1 == c.c010 * (Sub - bf) + c.c011 * bf
        b2 == c.c100 * (Sub - bf) + c.c101 * bf
        b3 == c.c110 * (Sub - bf) + c.c111 * bf
        g0 == b0 * (Sub - gf) + b1 * gf
        g1 == b2 * (Sub - gf) + b3 * gf
    IN  g0 * Sub + g1 * rf

\* one channel of the trilinear interpolation (blue, then green, then red),
\* as a numerator over Sub^3
Trilinear(c, rf, gf, bf) ==
    LET b0 == c.c000 * (Sub - bf) + c.c001 * bf
        b1 == c.c010 * (Sub - bf) + c.c011 * bf
        b2 == c.c100 * (Sub - bf) + c.c101 * bf
        b3 == c.c110 * (Sub - bf) + c.c111 * bf
        g0 == b0 * (Sub - gf) + b1 * gf
        g1 == b2 * (Sub - gf) + b3 * gf
    IN  g0 * (Sub - rf) + g1 * rf

apply_rust_style_tetrahedral(lut, a) ==
    LET n == lut.size - 1
    IN  [ch \in 1..3 |->
           Tetrahedral(Corners(lut, CellIndex(a[1], n), CellIndex(a[2], n), CellIndex(a[3], n), ch - 1),
                       CellFraction(a[1], n), CellFraction(a[2], n), CellFraction(a[3], n))]

apply_rust_style_trilinear(lut, a) ==
    LET n == lut.size - 1
    IN  [ch \in 1..3 |->
           Trilinear(Corners(lut, CellIndex(a[1], n), CellIndex(a[2], n), CellIndex(a[3], n), ch - 1),
                     CellFraction(a[1], n), CellFraction(a[2], n), CellFraction(a[3], n))]

\* ------------------------------------------------------------------------
\* 1D LUT.  A coordinate is the integer a standing for a / ((size-1) * Sub);
\* results are numerators over Sub.
\* ------------------------------------------------------------------------
MaxTableSize == 3
MaxTableValue == 2
Tables == UNION {[1..size -> 0..MaxTableValue] : size \in 2..MaxTableSize}

\* clamp x to [0,1]
Lut1DClamp(table, a) == Min(Max(a, 0), (Len(table) - 1) * Sub)

\* low = floor(idx) with idx = x * (size-1)
Lut1DLow(table, a) == Lut1DClamp(table, a) \div Sub

\* mutant: no step to the next knot
Lut1DHigh_NoStep(table, a) == Lut1DLow(table, a)

\* high = min(low + 1, size - 1)
Lut1DHigh(table, a) == Min(Lut1DLow(table, a) + 1, Len(table) - 1)

\* frac = idx - low, as a numerator over Sub
Lut1DFrac(table, a) == Lut1DClamp(table, a) - Lut1DLow(table, a) * Sub

\* lerp(p, q, frac), as a numerator over Sub
Lerp(p, q, frac) == p * Sub + frac * (q - p)

Lut1DApply(table, a) ==
    Lerp(table[Lut1DLow(table, a) + 1], table[Lut1DHigh(table, a) + 1], Lut1DFrac(table, a))

\* np.interp(x, np.linspace(0, 1, size), table): the end values outside the
\* knots, the last value on the last knot, otherwise the line through the
\* two knots around x
NpInterp(table, a) ==
    LET n == Len(table) - 1
    IN  IF a <= 0 THEN table[1] * Sub
        ELSE IF a >= n * Sub THEN table[n + 1] * Sub
        ELSE LET j == CHOOSE j \in 0..(n - 1) : j * Sub <= a /\ a < (j + 1) * Sub
             IN  table[j + 1] * Sub + (table[j + 2] - table[j + 1]) * (a - j * Sub)

\* ------------------------------------------------------------------------
\* LUT construction
\* ------------------------------------------------------------------------
Channels == 3
Cube(size) == size * size * size

NoLut == [made |-> FALSE, size |-> 0, data |-> <<>>]
Constructed(size, data) == [err |-> "none", lut |-> [made |-> TRUE, size |-> size, data |-> data]]
ConstructionError == [err |-> "ConstructionError", lut |-> NoLut]

\* Lut1D::new(data): the table needs at least 2 samples
Lut1DNew(data) ==
    IF Len(data) < 2 THEN ConstructionError ELSE Constructed(Len(data), data)

\* mutant: a table that is too long or too short is cut or padded to fit
Lut3DNew_Coerce(data, size) ==
    IF size < 2 THEN ConstructionError
    ELSE Constructed(size, [i \in 1..(Cube(size) * Channels) |->
                              IF i <= Len(data) THEN data[i] ELSE 0])

\* Lut3D::new(data, size): size >= 2 and len(data) = size^3 * channels
Lut3DNew(data, size) ==
    IF size < 2 \/ Len(data) # Cube(size) * Channels THEN ConstructionError
    ELSE Constructed(size, data)

\* ---------------------------------------------------------------------------
\* Exact arithmetic for the transfer curves.  The curves of verify_transfer.py
\* are evaluated on Python floats; the model evaluates the same expressions on
\* exact values, so that every comparison the code makes (segment thresholds,
\* tolerances) is decided without rounding.  Naturals of arbitrary size are
\* little-endian sequences of limbs; rationals are sign/numerator/denominator.
\* ---------------------------------------------------------------------------
LimbBase == 10 * 10 * 10

\* F applied to the values of its arguments, each evaluated once
Let1(a, F(_)) == CHOOSE r \in {F(x) : x \in {a}} : TRUE
Let2(a, b, F(_, _)) == CHOOSE r \in {F(x, y) : x \in {a}, y \in {b}} : TRUE
Let3(a, b, c, F(_, _, _)) ==
    CHOOSE r \in {F(x, y, z) : x \in {a}, y \in {b}, z \in {c}} : TRUE

RECURSIVE BnOfInt(_)
BnOfInt(n) ==
    IF n = 0 THEN <<>> ELSE <<n % LimbBase>> \o BnOfInt(n \div LimbBase)

RECURSIVE BnTrim(_)
BnTrim(a) ==
    Let1(a, LAMBDA s :
        IF s = <<>> THEN s
        ELSE IF s[Len(s)] = 0 THEN BnTrim(SubSeq(s, 1, Len(s) - 1)) ELSE s)

BnLimb(a, i) == IF i <= Len(a) THEN a[i] ELSE 0

\* one round of carrying: every limb keeps its low part and hands the rest up
BnPass(raw) ==
    Let1(raw, LAMBDA v :
        [i \in 1..(Len(v) + 1) |->
            (IF i <= Len(v) THEN v[i] % LimbBase ELSE 0)
            + (IF i > 1 THEN v[i - 1] \div LimbBase ELSE 0)])

\* the carry out of limb i of v, limbs in 0..2*LimbBase-2
RECURSIVE BnCarryOut(_, _)
BnCarryOut(v, i) ==
    IF i = 0 THEN 0
    ELSE IF v[i] >= LimbBase THEN 1
    ELSE IF v[i] = LimbBase - 1 THEN BnCarryOut(v, i - 1)
    ELSE 0

\* the borrow out of limb i of v, limbs in 1-LimbBase..LimbBase-1
RECURSIVE BnBorrowOut(_, _)
BnBorrowOut(v, i) ==
    IF i = 0 THEN 0
    ELSE IF v[i] < 0 THEN 1
    ELSE IF v[i] = 0 THEN BnBorrowOut(v, i - 1)
    ELSE 0

\* limbs of any size below 2^31 brought into 0..LimbBase-1
BnCarry(raw) ==
    Let1(BnPass(BnPass(BnPass(raw))), LAMBDA v :
        BnTrim([i \in 1..(Len(v) + 1) |->
                   (BnLimb(v, i) + BnCarryOut(v, i - 1)) % LimbBase]))

BnAdd(a, b) ==
    Let2(a, b, LAMBDA s, t :
        BnCarry([i \in 1..Max(Len(s), Len(t)) |-> BnLimb(s, i) + BnLimb(t, i)]))

\* a - b for a >= b
BnSub(a, b) ==
    Let2(a, b, LAMBDA s, t :
        Let1([i \in 1..Len(s) |-> s[i] - BnLimb(t, i)], LAMBDA v :
            BnTrim([i \in 1..Len(v) |-> (v[i] - BnBorrowOut(v, i - 1)) % LimbBase])))

\* the sum of a[i] * b[k + 1 - i] for i in lo..hi
RECURSIVE BnConv(_, _, _, _, _)
BnConv(a, b, k, lo, hi) ==
    IF lo > hi THEN 0
    ELSE IF lo = hi THEN a[lo] * b[k + 1 - lo]
    ELSE Let1((lo + hi) \div 2, LAMBDA mid :
             BnConv(a, b, k, lo, mid) + BnConv(a, b, k, mid + 1, hi))

BnMul(a, b) ==
    Let2(a, b, LAMBDA s, t :
        IF s = <<>> \/ t = <<>> THEN <<>>
        ELSE BnCarry([k \in 1..(Len(s) + Len(t) - 1) |->
                         BnConv(s, t, k, Max(1, k + 1 - Len(t)), Min(Len(s), k))]))

\* the comparison of limbs lo..hi, most significant first
RECURSIVE BnCmpAt(_, _, _, _)
BnCmpAt(a, b, lo, hi) ==
    IF lo > hi THEN 0
    ELSE IF lo = hi
    THEN IF a[lo] < b[lo] THEN -1 ELSE IF a[lo] > b[lo] THEN 1 ELSE 0
    ELSE Let2((lo + hi) \div 2, BnCmpAt(a, b, ((lo + hi) \div 2) + 1, hi),
              LAMBDA mid, top : IF top # 0 THEN top ELSE BnCmpAt(a, b, lo, mid))

BnCmp(a, b) ==
    Let2(a, b, LAMBDA s, t :
        IF Len(s) < Len(t) THEN -1
        ELSE IF Len(s) > Len(t) THEN 1
        ELSE BnCmpAt(s, t, 1, Len(s)))

RECURSIVE BnPow(_, _)
BnPow(a, n) ==
    IF n = 0 THEN <<1>>
    ELSE IF n % 2 = 0 THEN Let1(BnPow(a, n \div 2), LAMBDA h : BnMul(h, h))
    ELSE BnMul(a, BnPow(a, n - 1))

RECURSIVE QMake(_, _, _)
QMake(neg, n, d) ==
    Let2(n, d, LAMBDA s, t :
        IF s = <<>> THEN [neg |-> FALSE, num |-> <<>>, den |-> <<1>>]
        ELSE IF s[1] = 0 /\ t[1] = 0 THEN QMake(neg, Tail(s), Tail(t))
        ELSE [neg |-> neg, num |-> s, den |-> t])

QFrac(n, d) == QMake(n < 0, BnOfInt(IF n < 0 THEN -n ELSE n), BnOfInt(d))
QInt(n) == QFrac(n, 1)
\* the decimal literal n * 10^-k
QDec(n, k) == QMake(n < 0, BnOfInt(IF n < 0 THEN -n ELSE n), BnPow(<<10>>, k))
QZero == QInt(0)
QOne == QInt(1)
QIsZero(a) == a.num = <<>>
QIsNeg(a) == a.neg
QNeg(a) == Let1(a, LAMBDA s : QMake(~s.neg, s.num, s.den))

QAdd(a, b) ==
    Let2(a, b, LAMBDA s, t :
        Let3(BnMul(s.num, t.den), BnMul(t.num, s.den), BnMul(s.den, t.den),
             LAMBDA x, y, d :
                 IF s.neg = t.neg THEN QMake(s.neg, BnAdd(x, y), d)
                 ELSE IF BnCmp(x, y) >= 0 THEN QMake(s.neg, BnSub(x, y), d)
                 ELSE QMake(t.neg, BnSub(y, x), d)))

QSub(a, b) == QAdd(a, QNeg(b))
QMul(a, b) ==
    Let2(a, b, LAMBDA s, t :
        QMake(s.neg # t.neg, BnMul(s.num, t.num), BnMul(s.den, t.den)))
QInv(a) == Let1(a, LAMBDA s : QMake(s.neg, s.den, s.num))
QDiv(a, b) == QMul(a, QInv(b))
QPow(a, n) ==
    Let1(a, LAMBDA s : QMake(s.neg /\ n % 2 = 1, BnPow(s.num, n), BnPow(s.den, n)))

QLeq(a, b) ==
    Let2(a, b, LAMBDA s, t :
        IF s.neg # t.neg THEN s.neg
        ELSE Let1(BnCmp(BnMul(s.num, t.den), BnMul(t.num, s.den)), LAMBDA c :
                 IF s.neg THEN c >= 0 ELSE c <= 0))

QLt(a, b) == ~QLeq(b, a)
QSign(a, b) ==
    Let2(a, b, LAMBDA s, t :
        IF QLt(s, t) THEN "lt" ELSE IF QLt(t, s) THEN "gt" ELSE "eq")
QEq(a, b) == QSign(a, b) = "eq"

\* e^s for -1 <= s <= 0: the Taylor partial sums alternate around the limit,
\* the sum to an even order from above and to an odd order from below.
ExpOrder == 5

RECURSIVE ExpHorner(_, _, _)
ExpHorner(s, k, n) ==
    IF k > n THEN QOne
    ELSE QAdd(QOne, QMul(QDiv(s, QInt(k)), ExpHorner(s, k + 1, n)))

\* rational bounds of e^t: e^t = (e^(t/2))^2 below -1, e^t = 1 / e^(-t) above 0
RECURSIVE ExpBound(_, _)
ExpBound(t, upper) ==
    Let1(t, LAMBDA s :
        IF QIsZero(s) THEN QOne
        ELSE IF ~QIsNeg(s) THEN QInv(ExpBound(QNeg(s), ~upper))
        ELSE IF QLt(s, QInt(-1)) THEN QPow(ExpBound(QDiv(s, QInt(2)), upper), 2)
        ELSE ExpHorner(s, 1, IF upper THEN 2 * ExpOrder ELSE 2 * ExpOrder + 1))

ExpBelow(t) == ExpBound(t, FALSE)
ExpAbove(t) == ExpBound(t, TRUE)

RECURSIVE Gcd(_, _)
Gcd(a, b) == IF b = 0 THEN a ELSE Gcd(b, a % b)

\* A value a curve can return: B ("rat"), A * arg^(p/q) + B ("pow"),
\* A * ln(arg) + B ("log"), A * e^arg + B ("exp"), or a value the exact
\* arithmetic cannot name ("opaque").
VRat(c) == [kind |-> "rat", A |-> QZero, B |-> c, arg |-> QOne, p |-> 0, q |-> 1]
VOpaque == [kind |-> "opaque", A |-> QZero, B |-> QZero, arg |-> QOne, p |-> 0, q |-> 1]
VForm(kind, arg, p, q) ==
    [kind |-> kind, A |-> QOne, B |-> QZero, arg |-> arg, p |-> p, q |-> q]
VIsPure(v) == QEq(v.A, QOne) /\ QIsZero(v.B)

VAddQ(v, c) ==
    Let1(v, LAMBDA w : IF w.kind = "opaque" THEN w ELSE [w EXCEPT !.B = QAdd(@, c)])

VMulQ(v, c) ==
    Let2(v, c, LAMBDA w, m :
        IF w.kind = "opaque" THEN w
        ELSE IF QIsZero(m) THEN VRat(QZero)
        ELSE IF w.kind = "rat" THEN VRat(QMul(w.B, m))
        ELSE [w EXCEPT !.A = QMul(@, m), !.B = QMul(@, m)])

VDivQ(v, c) == VMulQ(v, QInv(c))

\* the form of arg ** (p/q), the exponent in lowest terms
VPowForm(arg, p, q) ==
    Let1(Gcd(p, q), LAMBDA g :
        IF q \div g = 1 THEN VRat(QPow(arg, p \div g))
        ELSE IF QIsNeg(arg) THEN VOpaque
        ELSE IF QIsZero(arg) THEN VRat(QZero)
        ELSE VForm("pow", arg, p \div g, q \div g))

\* v ** (p/q) for integers p, q > 0
VPow(v, p, q) ==
    Let1(v, LAMBDA w :
        IF w.kind = "rat" THEN VPowForm(w.B, p, q)
        ELSE IF w.kind = "pow" /\ VIsPure(w) THEN VPowForm(w.arg, w.p * p, w.q * q)
        ELSE VOpaque)

VLog(v) ==
    Let1(v, LAMBDA w :
        IF w.kind = "rat" /\ ~QIsNeg(w.B) /\ ~QIsZero(w.B) THEN VForm("log", w.B, 0, 1)
        ELSE IF w.kind = "exp" /\ VIsPure(w) THEN VRat(w.arg)
        ELSE VOpaque)

VExp(v) ==
    Let1(v, LAMBDA w :
        IF w.kind = "rat" THEN VForm("exp", w.B, 0, 1)
        ELSE IF w.kind = "log" /\ VIsPure(w) THEN VRat(w.arg)
        ELSE VOpaque)

\* how A * f + B compares with c for the term f of a form with A > 0
VCmpTerm(w, m) ==
    IF w.kind = "pow"
    THEN IF QIsNeg(m) THEN "gt" ELSE QSign(QPow(w.arg, w.p), QPow(m, w.q))
    ELSE IF w.kind = "log"
    THEN IF QLt(w.arg, ExpBelow(m)) THEN "lt"
         ELSE IF QLt(ExpAbove(m), w.arg) THEN "gt"
         ELSE "unknown"
    ELSE IF QIsNeg(m) \/ QIsZero(m) THEN "gt"
         ELSE IF QLt(ExpAbove(w.arg), m) THEN "lt"
         ELSE IF QLt(m, ExpBelow(w.arg)) THEN "gt"
         ELSE "unknown"

\* how v compares with c: "lt", "eq", "gt", or "unknown" when the brackets of
\* the exponential cannot tell
VCmp(v, c) ==
    Let2(v, c, LAMBDA w, d :
        IF w.kind = "rat" THEN QSign(w.B, d)
        ELSE IF w.kind = "opaque" \/ QIsNeg(w.A) \/ QIsZero(w.A) THEN "unknown"
        ELSE Let1(QDiv(QSub(d, w.B), w.A), LAMBDA m : VCmpTerm(w, m)))

\* verify_transfer.py: sRGB
SRGB_LINEAR_MAX == QDec(31308, 7)
SRGB_CODED_MAX == QDec(4045, 5)
SRGB_SLOPE == QDec(1292, 2)
SRGB_SCALE == QDec(1055, 3)
SRGB_OFFSET == QDec(55, 3)

Undecided == [seg |-> "undecided", val |-> VOpaque]
AtMost(c) == c \in {"lt", "eq"}

\* v ** 2.4 on the power segment: 2.4 = 24/10
srgb_eotf(v) ==
    Let2(v, VCmp(v, SRGB_CODED_MAX), LAMBDA w, c :
        IF AtMost(c)
        THEN [seg |-> "linear", val |-> VDivQ(w, SRGB_SLOPE)]
        ELSE IF c = "gt"
        THEN [seg |-> "power",
              val |-> VPow(VDivQ(VAddQ(w, SRGB_OFFSET), SRGB_SCALE), 24, 10)]
        ELSE Undecided)

\* l ** (1.0 / 2.4) on the power segment: 1/2.4 = 10/24
srgb_oetf(l) ==
    Let2(l, VCmp(l, SRGB_LINEAR_MAX), LAMBDA w, c :
        IF AtMost(c)
        THEN [seg |-> "linear", val |-> VMulQ(w, SRGB_SLOPE)]
        ELSE IF c = "gt"
        THEN [seg |-> "power",
              val |-> VAddQ(VMulQ(VPow(w, 10, 24), SRGB_SCALE), QNeg(SRGB_OFFSET))]
        ELSE Undecided)

\* verify_transfer.py: HLG
HLG_A == QDec(17883277, 8)
HLG_B == QDec(28466892, 8)
HLG_C == QDec(55991073, 8)
HLG_BREAK == QFrac(1, 12)
HLG_CODED_BREAK == QDec(5, 1)

hlg_oetf(e) ==
    Let3(e, VCmp(e, QZero), VCmp(e, HLG_BREAK), LAMBDA w, c0, c1 :
        IF AtMost(c0) THEN [seg |-> "zero", val |-> VRat(QZero)]
        ELSE IF c0 = "gt" /\ AtMost(c1)
        THEN [seg |-> "sqrt", val |-> VPow(VMulQ(w, QInt(3)), 1, 2)]
        ELSE IF c0 = "gt" /\ c1 = "gt"
        THEN [seg |-> "log",
              val |-> VAddQ(VMulQ(VLog(VAddQ(VMulQ(w, QInt(12)), QNeg(HLG_B))), HLG_A),
                            HLG_C)]
        ELSE Undecided)

\* hlg_eotf with the linear breakpoint 1/12 in place of the coded one
hlg_eotf_LinearBreak(ep) ==
    Let3(ep, VCmp(ep, QZero), VCmp(ep, HLG_BREAK), LAMBDA w, c0, c1 :
        IF AtMost(c0) THEN [seg |-> "zero", val |-> VRat(QZero)]
        ELSE IF c0 = "gt" /\ AtMost(c1)
        THEN [seg |-> "square", val |-> VDivQ(VPow(w, 2, 1), QInt(3))]
        ELSE IF c0 = "gt" /\ c1 = "gt"
        THEN [seg |-> "exp",
              val |-> VDivQ(VAddQ(VExp(VDivQ(VAddQ(w, QNeg(HLG_C)), HLG_A)), HLG_B),
                            QInt(12))]
        ELSE Undecided)

hlg_eotf(ep) ==
    Let3(ep, VCmp(ep, QZero), VCmp(ep, HLG_CODED_BREAK), LAMBDA w, c0, c1 :
        IF AtMost(c0) THEN [seg |-> "zero", val |-> VRat(QZero)]
        ELSE IF c0 = "gt" /\ AtMost(c1)
        THEN [seg |-> "square", val |-> VDivQ(VPow(w, 2, 1), QInt(3))]
        ELSE IF c0 = "gt" /\ c1 = "gt"
        THEN [seg |-> "exp",
              val |-> VDivQ(VAddQ(VExp(VDivQ(VAddQ(w, QNeg(HLG_C)), HLG_A)), HLG_B),
                            QInt(12))]
        ELSE Undecided)

CurveNames == {"srgb", "hlg"}
Encode(name, x) == IF name = "srgb" THEN srgb_oetf(x) ELSE hlg_oetf(x)
Decode(name, v) == IF name = "srgb" THEN srgb_eotf(v) ELSE hlg_eotf(v)

\* ------------------------------------------------------------------------
\* State
\* ------------------------------------------------------------------------
\* fm:   one FastMath call: the routine, its arguments, the position of the
\*       call ("call" before, "returned" / "raised" after) and its result
\* cdl:  one pixel in apply_cdl_manual: the input pixel and grade, the working
\*       copy rgb, the channel c and scalar v of the SOP loop, the bases that
\*       were handed to fast_pow, the output and the position in the function
\* lut3: one pixel through verify_lut3d.main: the table, the pixel a, the
\*       flat offsets fetched, the tetrahedral result tet (over den * Sub)
\*       and the trilinear result tri (over den * Sub^3)
\* lut1: one sample through Lut1D.apply: the table, the sample a, the knot
\*       indices low and high, the fraction and the result (over Sub)
\* ctor: one call of a LUT constructor: the class, the data and size handed
\*       in, and the outcome
\* prod: one 3D LUT producer filling its flat array, one grid triple per
\*       step (each triple is named by the grid coordinate it was computed
\*       for), then one corner fetch get(r, g, b) from the result
\* cell: one channel of one LUT cell in the tetrahedral interpolation: the
\*       8 corner values, the fractions, the value of each branch formula,
\*       the branch taken and the result
\* img:  one image under a per-pixel transform, split into chunks for a
\*       pool of workers: the input pixels, the result buffer, the next
\*       chunk to hand out, each worker's chunk and progress, the chunks
\*       that wrote each position and the chunks in completion order
\* hash: one pixel array and the digest each hash helper computed for it
\* curve: one transfer curve at one input: the curve, the input x, its code
\*       value enc, the decoded value dec, and a later sample y with its
\*       code value ency
\* gen:  the RGB test cube built twice: the side, the array of the meshgrid
\*       generator, the list of the nested loops and their loop variables
\* gold: the golden generator and the test-time loader: the dictionary the
\*       generator builds, the hashes.json file, the name looked up and the
\*       loader's outcome
VARIABLES fm, cdl, lut3, lut1, ctor, prod, cell, img, hash, gold, curve, gen, skip, apple, test, store

vars == <<fm, cdl, lut3, lut1, ctor, prod, cell, img, hash, gold, curve, gen, skip, apple, test, store>>

ZeroTriple == <<0, 0, 0>>

NoHashes == [exists |-> FALSE, hashes |-> <<>>]
StoreIdle == [file |-> NoHashes, init |-> NoHashes, last |-> <<>>, calls |-> 0, name |-> "",
              outcome |-> "", entry |-> <<>>, pc |-> "idle"]

TestIdle == [name |-> "none", api |-> "available", actual |-> PosZero, expected |-> PosZero,
             exc |-> "none", outcome |-> "none", pc |-> "idle"]

AppleIdle == [v |-> QZero, seg |-> "none", val |-> VRat(QZero), pc |-> "idle"]

SkipIdle == [sat |-> QOne, ran |-> [i \in {} |-> FALSE], pc |-> "idle"]

GenIdle == [size |-> 2, python |-> <<>>, rust |-> <<>>, r |-> 0, g |-> 0, b |-> 0,
            pc |-> "idle"]

CurveIdle == [name |-> "none", x |-> QZero, enc |-> Undecided, dec |-> Undecided,
              y |-> QZero, ency |-> Undecided, pc |-> "idle"]

NoFile == [exists |-> FALSE, tests |-> <<>>]
GoldIdle == [golden |-> <<>>, file |-> NoFile, name |-> "", outcome |-> "", entry |-> <<>>,
             pc |-> "idle"]

HashIdle == [data |-> <<>>, golden |-> <<>>, test |-> <<>>, debug |-> <<>>, pc |-> "idle"]

ImgIdle == [kind |-> "none", grade |-> CDL_IDENTITY, pixels |-> <<>>, result |-> <<>>,
            chunk |-> 1, next |-> 1, worker |-> <<>>, writers |-> <<>>, finished |-> <<>>]

CellIdle == [c |-> [c000 |-> 0, c100 |-> 0, c010 |-> 0, c110 |-> 0,
                   c001 |-> 0, c101 |-> 0, c011 |-> 0, c111 |-> 0],
             f |-> ZeroTriple, vals |-> <<0, 0, 0, 0, 0, 0>>, branch |-> 0, out |-> 0,
             tri |-> 0, pc |-> "idle"]

Unwritten == <<-1, -1, -1>>
ProdIdle == [producer |-> "none", size |-> 2, k |-> 0, data |-> <<>>, at |-> Unwritten,
             got |-> Unwritten, pc |-> "idle"]

CtorIdle == [class |-> "none", data |-> <<>>, size |-> 0, pc |-> "idle",
             res |-> ConstructionError]

Lut1Idle == [table |-> <<0, 0>>, a |-> 0, low |-> 0, high |-> 0, frac |-> 0,
             out |-> 0, pc |-> "idle"]

Lut3Idle == [lut |-> IdentityLut(2), a |-> ZeroTriple, offsets |-> {},
             tet |-> ZeroTriple, tri |-> ZeroTriple, pc |-> "idle"]
FmIdle == [op |-> "none", x |-> PosZero, y |-> PosZero, pc |-> "idle", res |-> Ret(PosZero)]
CdlIdle == [pixel |-> Triple(PosZero, PosZero, PosZero), grade |-> CDL_IDENTITY,
            rgb |-> Triple(PosZero, PosZero, PosZero), c |-> 1, v |-> PosZero,
            bases |-> <<>>, out |-> Triple(PosZero, PosZero, PosZero), pc |-> "idle"]

\* ------------------------------------------------------------------------
\* FastMath calls
\* ------------------------------------------------------------------------
\* binary32 arguments: zero, denormals, the smallest and largest normals,
\* values around 1, around -126 and 128, infinities and NaNs, both signs
FmExpos == {0, 1, 126, 127, 133, 134, 254, 255}
FmFracs == {0, 1, 4194304, 8126464, 8126465, 8388607}
FmArgs == {F32(s, e, f) : s \in {0, 1}, e \in FmExpos, f \in FmFracs}
\* exponents handed to pow: 0, 1/2, 1, 1.2, 2^24 (above 128/log2_approx(1)),
\* their negatives, the largest finite value, infinities and a NaN
FmPowExps == {F32(s, e, f) : s \in {0, 1}, e \in {0, 126, 127, 151, 254, 255}, f \in {0}}
                \cup {F32(0, 127, 1677722), F32(0, 255, 4194304)}

FmOps1 == {"fast_log2", "fast_exp2", "fast_exp2_final"}
FmOps2 == {"fast_pow", "fast_pow_final"}

InitFM ==
    /\ store = StoreIdle
    /\ test = TestIdle
    /\ apple = AppleIdle
    /\ skip = SkipIdle
    /\ gen = GenIdle
    /\ curve = CurveIdle
    /\ gold = GoldIdle
    /\ hash = HashIdle
    /\ img = ImgIdle
    /\ cell = CellIdle
    /\ prod = ProdIdle
    /\ ctor = CtorIdle
    /\ cdl = CdlIdle
    /\ lut3 = Lut3Idle
    /\ lut1 = Lut1Idle
    /\ fm \in {[op |-> o, x |-> a, y |-> PosZero, pc |-> "call", res |-> Ret(PosZero)] :
                o \in FmOps1, a \in FmArgs}
           \cup {[op |-> o, x |-> a, y |-> b, pc |-> "call", res |-> Ret(PosZero)] :
                o \in FmOps2, a \in FmArgs, b \in FmPowExps}

Return(r) ==
    /\ UNCHANGED <<cdl, lut3, lut1, ctor, prod, cell, img, hash, gold, curve, gen, skip, apple, test, store>>
    /\ fm' = [fm EXCEPT !.res = r, !.pc = IF r.exc = "none" THEN "returned" ELSE "raised"]

CallLog2 == fm.pc = "call" /\ fm.op = "fast_log2" /\ Return(fast_log2(fm.x))
CallExp2 == fm.pc = "call" /\ fm.op = "fast_exp2" /\ Return(fast_exp2(fm.x))
CallExp2Final == fm.pc = "call" /\ fm.op = "fast_exp2_final" /\ Return(fast_exp2_final(fm.x))
CallPow == fm.pc = "call" /\ fm.op = "fast_pow" /\ Return(fast_pow(fm.x, fm.y))
CallPowFinal == fm.pc = "call" /\ fm.op = "fast_pow_final" /\ Return(fast_pow_final(fm.x, fm.y))

NextFM == CallLog2 \/ CallExp2 \/ CallExp2Final \/ CallPow \/ CallPowFinal

SpecFM == InitFM /\ [][NextFM]_vars

FmDone == fm.pc \in {"returned", "raised"}
FmFiniteArgs == IsFinite(fm.x) /\ (fm.op \in FmOps2 => IsFinite(fm.y))

\* floor_x and fraction = x - floor_x of one copy of fast_exp2
Exp2Floor(op, x) == IF op = "fast_exp2" THEN FloorFastPow(x) ELSE FloorCdlFinal(x)
Exp2Fraction(x, floor_x) == FSub(x, FromInt(floor_x))
InExp2Range(x) == IsFinite(x) /\ FGe(x, ExpLow) /\ FLt(x, ExpHigh)
Exp2Called == FmDone /\ fm.op \in {"fast_exp2", "fast_exp2_final"} /\ InExp2Range(fm.x)

\* C22: for -126 <= x < 128, floor_x is the mathematical floor of x
\* (floor_x <= x < floor_x + 1, also for negative x and negative whole
\* numbers), fraction = x - floor_x satisfies 0 <= fraction < 1, and every
\* copy of the routine computes the same floor_x and fraction.
C22_FloorSplit ==
    Exp2Called =>
        LET floor_x  == Exp2Floor(fm.op, fm.x)
            fraction == Exp2Fraction(fm.x, floor_x)
        IN  /\ FLe(FromInt(floor_x), fm.x)
            /\ FLt(fm.x, FromInt(floor_x + 1))
            /\ FGe(fraction, PosZero)
            /\ FLt(fraction, One)
            /\ FloorFastPow(fm.x) = FloorCdlFinal(fm.x)

\* positive normal binary32: sign 0, exponent field 1..254
IsPositiveNormal(x) == x.sign = 0 /\ x.expo \in 1..(ExpFieldMax - 1)
Log2Called == FmDone /\ fm.op = "fast_log2" /\ IsPositiveNormal(fm.x)

\* C23: for every positive normal binary32 x, log2_approx splits x without
\* loss: the mantissa word keeps x's fraction bits with sign 0 and exponent
\* field 127, so it is a float m with 1 <= m < 2; the exponent is e =
\* field - 127 with -126 <= e <= 127; and x = m * 2^e exactly.
C23_LosslessDecomposition ==
    Log2Called =>
        LET m == MantissaBits(fm.x)
            e == ExponentOf(fm.x)
        IN  /\ m.sign = 0 /\ m.expo = EXP_BIAS /\ m.frac = fm.x.frac
            /\ FGe(m, One) /\ FLt(m, FromInt(2))
            /\ e \in (-126)..127
            /\ FMul(m, ZfBits(e)) = fm.x

\* log2_approx has returned for the smallest positive normal number with an
\* odd fraction (e = -126) and its decomposition multiplies back to x
C23_Witness ==
    /\ Log2Called /\ fm.pc = "returned"
    /\ fm.x = F32(0, 1, 1)
    /\ ExponentOf(fm.x) = -126
    /\ FMul(MantissaBits(fm.x), ZfBits(ExponentOf(fm.x))) = fm.x

\* C29: for -126 <= x < 128 the exponent field floor_x + 127 built by
\* exp2_approx lies in [1, 254], so 2^floor_x is a normal, finite, positive
\* float, the 32-bit mask cuts nothing off, and exp2_approx(-126) is not 0.
C29_ExponentFieldNormal ==
    Exp2Called =>
        LET floor_x == Exp2Floor(fm.op, fm.x)
            field   == floor_x + EXP_BIAS
            zf      == ZfBits(floor_x)
        IN  /\ field \in 1..(ExpFieldMax - 1)
            /\ zf = F32(0, field, 0)
            /\ IsFinite(zf) /\ FGt(zf, PosZero)
            /\ fm.x = ExpLow => ~IsZero(fm.res.val)

\* C6: over finite binary32 arguments FastMath never raises and returns its
\* sentinels: log2_approx(x) = -inf for x <= 0; exp2_approx(x) = 0 for
\* x < -126 and +inf for x >= 128; pow_approx(base, exp) = 0 for base <= 0
\* and every exp.
C6_SentinelsTotal ==
    (FmDone /\ FmFiniteArgs) =>
        /\ fm.pc = "returned"
        /\ (fm.op = "fast_log2" /\ FLe(fm.x, PosZero)) => fm.res.val = NegInf
        /\ (fm.op \in {"fast_exp2", "fast_exp2_final"} /\ FLt(fm.x, ExpLow))
              => fm.res.val = PosZero
        /\ (fm.op \in {"fast_exp2", "fast_exp2_final"} /\ FGe(fm.x, ExpHigh))
              => fm.res.val = PosInf
        /\ (fm.op \in FmOps2 /\ FLe(fm.x, PosZero)) => fm.res.val = PosZero

\* a pow call with a negative base and a negative exponent has returned 0
C6_Witness ==
    /\ fm.pc = "returned" /\ fm.op = "fast_pow"
    /\ fm.x = Neg(One) /\ fm.y = Neg(One)
    /\ fm.res.val = PosZero

\* C7: a NaN argument of log2_approx, exp2_approx or pow_approx yields NaN,
\* and no call with a non-finite argument raises an exception.
C7_NonFinitePropagates ==
    (FmDone /\ ~FmFiniteArgs) =>
        /\ fm.pc = "returned"
        /\ (IsNaN(fm.x) \/ (fm.op \in FmOps2 /\ IsNaN(fm.y))) => IsNaN(fm.res.val)



\* ------------------------------------------------------------------------
\* CDL engine, one pixel at a time
\* ------------------------------------------------------------------------
CdlStart(px, g) ==
    [pixel |-> px, grade |-> g, rgb |-> px, c |-> 1, v |-> PosZero,
     bases |-> <<>>, out |-> Triple(PosZero, PosZero, PosZero), pc |-> "sop"]

InitCDL ==
    /\ store = StoreIdle
    /\ test = TestIdle
    /\ apple = AppleIdle
    /\ skip = SkipIdle
    /\ gen = GenIdle
    /\ curve = CurveIdle
    /\ gold = GoldIdle
    /\ hash = HashIdle
    /\ img = ImgIdle
    /\ cell = CellIdle
    /\ prod = ProdIdle
    /\ ctor = CtorIdle
    /\ fm = FmIdle
    /\ lut3 = Lut3Idle
    /\ lut1 = Lut1Idle
    /\ cdl \in {CdlStart(px, g) : px \in GridPixels, g \in Grades}
               \cup {CdlStart(px, g) : px \in RampPixels, g \in {CDL_WARMUP, CDL_IDENTITY}}

Sop ==
    /\ cdl.pc = "sop"
    /\ cdl' = [cdl EXCEPT !.v = SopStage(cdl.rgb[cdl.c], cdl.grade.slope[cdl.c],
                                         cdl.grade.offset[cdl.c]),
                          !.pc = "clamp"]
    /\ UNCHANGED <<fm, lut3, lut1, ctor, prod, cell, img, hash, gold, curve, gen, skip, apple, test, store>>

Clamp ==
    /\ cdl.pc = "clamp"
    /\ cdl' = [cdl EXCEPT !.v = ClampStage(cdl.v), !.pc = "power"]
    /\ UNCHANGED <<fm, lut3, lut1, ctor, prod, cell, img, hash, gold, curve, gen, skip, apple, test, store>>

Power ==
    /\ cdl.pc = "power"
    /\ LET p == cdl.grade.power[cdl.c]
           r == PowerStage(cdl.v, p)
       IN  cdl' = IF r.exc # "none" THEN [cdl EXCEPT !.pc = "raised"]
                  ELSE [cdl EXCEPT !.rgb[cdl.c] = r.val,
                                   !.bases = IF PowerApplies(p) THEN Append(@, cdl.v) ELSE @,
                                   !.c = IF cdl.c = 3 THEN 3 ELSE cdl.c + 1,
                                   !.pc = IF cdl.c = 3 THEN "sat" ELSE "sop"]
    /\ UNCHANGED <<fm, lut3, lut1, ctor, prod, cell, img, hash, gold, curve, gen, skip, apple, test, store>>

Saturation ==
    /\ cdl.pc = "sat"
    /\ cdl' = [cdl EXCEPT !.rgb = SaturationStage(cdl.rgb, cdl.grade.sat), !.pc = "final"]
    /\ UNCHANGED <<fm, lut3, lut1, ctor, prod, cell, img, hash, gold, curve, gen, skip, apple, test, store>>

Final ==
    /\ cdl.pc = "final"
    /\ cdl' = [cdl EXCEPT !.out = FinalClamp(cdl.rgb), !.pc = "done"]
    /\ UNCHANGED <<fm, lut3, lut1, ctor, prod, cell, img, hash, gold, curve, gen, skip, apple, test, store>>

NextCDL == Sop \/ Clamp \/ Power \/ Saturation \/ Final

SpecCDL == InitCDL /\ [][NextCDL]_vars

\* ------------------------------------------------------------------------
\* 3D LUT: tetrahedral, then trilinear, on one pixel
\* ------------------------------------------------------------------------
\* pixel coordinates from one step below 0 to one step above 1
LutCoords(size) == -1..((size - 1) * Sub + 1)

InitLUT ==
    /\ store = StoreIdle
    /\ test = TestIdle
    /\ apple = AppleIdle
    /\ skip = SkipIdle
    /\ gen = GenIdle
    /\ curve = CurveIdle
    /\ gold = GoldIdle
    /\ hash = HashIdle
    /\ img = ImgIdle
    /\ cell = CellIdle
    /\ prod = ProdIdle
    /\ ctor = CtorIdle
    /\ fm = FmIdle
    /\ cdl = CdlIdle
    /\ lut3 \in {[lut |-> l, a |-> <<ar, ag, ab>>, offsets |-> {},
                  tet |-> ZeroTriple, tri |-> ZeroTriple, pc |-> "start"] :
                    l \in Luts, ar \in -1..(MaxLutSize - 1) * Sub + 1,
                    ag \in -1..(MaxLutSize - 1) * Sub + 1,
                    ab \in -1..(MaxLutSize - 1) * Sub + 1}
    /\ \A k \in 1..3 : lut3.a[k] \in LutCoords(lut3.lut.size)
    /\ lut1 = Lut1Idle

\* every fetched slice lut_data[idx:idx+3] lies inside the flat array
FetchesInBounds(lut, offsets) ==
    \A idx \in offsets : idx >= 0 /\ idx + Channels <= Len(lut.data)

ApplyTetrahedral ==
    /\ lut3.pc = "start"
    /\ LET n == lut3.lut.size - 1
           offsets == CornerOffsets(lut3.lut.size, CellIndex(lut3.a[1], n),
                                    CellIndex(lut3.a[2], n), CellIndex(lut3.a[3], n))
       IN  IF FetchesInBounds(lut3.lut, offsets)
           THEN lut3' = [lut3 EXCEPT
                           !.tet = apply_rust_style_tetrahedral(lut3.lut, lut3.a),
                           !.offsets = offsets,
                           !.pc = "tetrahedral"]
           ELSE lut3' = [lut3 EXCEPT !.offsets = offsets, !.pc = "raised"]
    /\ UNCHANGED <<fm, cdl, lut1, ctor, prod, cell, img, hash, gold, curve, gen, skip, apple, test, store>>

ApplyTrilinear ==
    /\ lut3.pc = "tetrahedral"
    /\ lut3' = [lut3 EXCEPT !.tri = apply_rust_style_trilinear(lut3.lut, lut3.a),
                            !.pc = "done"]
    /\ UNCHANGED <<fm, cdl, lut1, ctor, prod, cell, img, hash, gold, curve, gen, skip, apple, test, store>>

NextLUT == ApplyTetrahedral \/ ApplyTrilinear

SpecLUT == InitLUT /\ [][NextLUT]_vars

LutN == lut3.lut.size - 1
IsGridPoint(a) == \A k \in 1..3 : a[k] >= 0 /\ a[k] <= LutN * Sub /\ a[k] % Sub = 0
InRange(a) == \A k \in 1..3 : a[k] >= 0 /\ a[k] <= LutN * Sub

C12_CornerFetchesInBounds ==
    lut3.pc \in {"tetrahedral", "raised", "done"} =>
        /\ lut3.pc # "raised"
        /\ \A k \in 1..3 :
              /\ CellIndex(lut3.a[k], LutN) \in 0..(lut3.lut.size - 2)
              /\ CellFraction(lut3.a[k], LutN) \in 0..Sub
              /\ CellFraction(lut3.a[k], LutN) = Sub => lut3.a[k] >= LutN * Sub
        /\ Cardinality(lut3.offsets) = 8
        /\ \A idx \in lut3.offsets :
              idx >= 0 /\ idx <= 3 * Cube(lut3.lut.size) - 3 /\ idx % 3 = 0

\* a pixel above 1 on red and at 1 on green and blue fetched the last triple
\* of a size-3 table
C12_Witness ==
    /\ lut3.pc = "done" /\ lut3.lut.size = 3
    /\ lut3.a = <<2 * Sub + 1, 2 * Sub, 2 * Sub>>
    /\ (3 * Cube(3) - 3) \in lut3.offsets
    /\ 0 \notin lut3.offsets

\* |tet/(den*Sub) - tri/(den*Sub^3)| <= 1/20 on every channel
TetTriClose ==
    \A k \in 1..3 :
        LET d == lut3.tet[k] * Sub * Sub - lut3.tri[k]
        IN  20 * (IF d < 0 THEN -d ELSE d) <= lut3.lut.den * Sub * Sub * Sub

\* C9 as stated: for every 3D LUT and every x in [0,1]^3 the tetrahedral and
\* the trilinear result differ by at most 0.05 on every channel.
C9_AnyLutClose == (lut3.pc = "done" /\ InRange(lut3.a)) => TetTriClose

\* the entry of each channel depends on that channel's grid coordinate only
PerChannelLut(lut) == lut.kind \in {"identity", "contrast"}

\* C9 amended: for a per-channel LUT (as the test's contrast LUT) the
\* tetrahedral and the trilinear result differ by at most 0.05.
C9_PerChannelLutClose ==
    (lut3.pc = "done" /\ InRange(lut3.a) /\ PerChannelLut(lut3.lut)) => TetTriClose

\* the contrast LUT at a point with three different fractions inside a cell
C9_Witness ==
    /\ lut3.pc = "done" /\ lut3.lut.kind = "contrast" /\ lut3.lut.size = 3
    /\ lut3.a = <<2, Sub + 1, 2 * Sub>>
    /\ TetTriClose

\* ------------------------------------------------------------------------
\* 1D LUT: one sample through Lut1D.apply
\* ------------------------------------------------------------------------
InitLUT1 ==
    /\ store = StoreIdle
    /\ test = TestIdle
    /\ apple = AppleIdle
    /\ skip = SkipIdle
    /\ gen = GenIdle
    /\ curve = CurveIdle
    /\ gold = GoldIdle
    /\ hash = HashIdle
    /\ img = ImgIdle
    /\ cell = CellIdle
    /\ prod = ProdIdle
    /\ ctor = CtorIdle
    /\ fm = FmIdle
    /\ cdl = CdlIdle
    /\ lut3 = Lut3Idle
    /\ lut1 \in {[table |-> t, a |-> a, low |-> 0, high |-> 0, frac |-> 0,
                  out |-> 0, pc |-> "start"] :
                    t \in Tables, a \in -1..((MaxTableSize - 1) * Sub + 1)}
    /\ lut1.a <= (Len(lut1.table) - 1) * Sub + 1

Lut1DIndex ==
    /\ lut1.pc = "start"
    /\ lut1' = [lut1 EXCEPT !.low = Lut1DLow(lut1.table, lut1.a),
                            !.high = Lut1DHigh(lut1.table, lut1.a),
                            !.frac = Lut1DFrac(lut1.table, lut1.a),
                            !.pc = "indexed"]
    /\ UNCHANGED <<fm, cdl, lut3, ctor, prod, cell, img, hash, gold, curve, gen, skip, apple, test, store>>

Lut1DLerp ==
    /\ lut1.pc = "indexed"
    /\ lut1' = [lut1 EXCEPT !.out = Lut1DApply(lut1.table, lut1.a), !.pc = "done"]
    /\ UNCHANGED <<fm, cdl, lut3, ctor, prod, cell, img, hash, gold, curve, gen, skip, apple, test, store>>

NextLUT1 == Lut1DIndex \/ Lut1DLerp

SpecLUT1 == InitLUT1 /\ [][NextLUT1]_vars

Lut1N == Len(lut1.table) - 1

\* C10: for a table of size >= 2 and every x in [0,1], Lut1D.apply(x) equals
\* the linear interpolation through the knots (k/(size-1), table[k]); low and
\* high stay within [0, size-1]; x = k/(size-1) returns table[k]; x = 0
\* returns table[0]; x = 1 returns table[size-1] with low = high = size-1 and
\* frac = 0.
C10_Lut1DIsLinearInterp ==
    (lut1.pc = "done" /\ lut1.a >= 0 /\ lut1.a <= Lut1N * Sub) =>
        /\ lut1.out = NpInterp(lut1.table, lut1.a)
        /\ lut1.low \in 0..Lut1N /\ lut1.high \in 0..Lut1N
        /\ (lut1.a % Sub = 0) => lut1.out = lut1.table[(lut1.a \div Sub) + 1] * Sub
        /\ (lut1.a = 0) => lut1.out = lut1.table[1] * Sub
        /\ (lut1.a = Lut1N * Sub) =>
              /\ lut1.out = lut1.table[Lut1N + 1] * Sub
              /\ lut1.low = Lut1N /\ lut1.high = Lut1N /\ lut1.frac = 0

\* a sample strictly between two knots with different values was interpolated
C10_Witness ==
    /\ lut1.pc = "done" /\ lut1.table = <<0, 2, 1>> /\ lut1.a = Sub + 1
    /\ lut1.low = 1 /\ lut1.high = 2 /\ lut1.frac = 1
    /\ lut1.out = 2 * Sub - 1

\* ------------------------------------------------------------------------
\* LUT construction: one constructor call
\* ------------------------------------------------------------------------
\* data lengths around the valid ones, and lengths that forget the channels
CtorLengths ==
    (0..(MaxTableSize + 1)) \cup
    UNION {{Cube(size), Cube(size) * Channels - 1, Cube(size) * Channels,
            Cube(size) * Channels + 1} : size \in 2..MaxLutSize}
CtorData(len, base) == [i \in 1..len |-> base + i]

InitCTOR ==
    /\ store = StoreIdle
    /\ test = TestIdle
    /\ apple = AppleIdle
    /\ skip = SkipIdle
    /\ gen = GenIdle
    /\ curve = CurveIdle
    /\ gold = GoldIdle
    /\ hash = HashIdle
    /\ img = ImgIdle
    /\ cell = CellIdle
    /\ prod = ProdIdle
    /\ fm = FmIdle
    /\ cdl = CdlIdle
    /\ lut3 = Lut3Idle
    /\ lut1 = Lut1Idle
    /\ ctor \in {[class |-> c, data |-> CtorData(len, base), size |-> size, pc |-> "call",
                  res |-> ConstructionError] :
                    c \in {"Lut1D", "Lut3D"}, len \in CtorLengths,
                    base \in 0..MaxTableValue, size \in -1..MaxLutSize}
    /\ ctor.class = "Lut1D" => (ctor.size = Len(ctor.data) /\ ctor.size <= MaxTableSize + 1)

NewLut1D ==
    /\ ctor.pc = "call" /\ ctor.class = "Lut1D"
    /\ ctor' = [ctor EXCEPT !.res = Lut1DNew(ctor.data), !.pc = "returned"]
    /\ UNCHANGED <<fm, cdl, lut3, lut1, prod, cell, img, hash, gold, curve, gen, skip, apple, test, store>>

NewLut3D ==
    /\ ctor.pc = "call" /\ ctor.class = "Lut3D"
    /\ ctor' = [ctor EXCEPT !.res = Lut3DNew(ctor.data, ctor.size), !.pc = "returned"]
    /\ UNCHANGED <<fm, cdl, lut3, lut1, prod, cell, img, hash, gold, curve, gen, skip, apple, test, store>>

NextCTOR == NewLut1D \/ NewLut3D

SpecCTOR == InitCTOR /\ [][NextCTOR]_vars

ValidCtorInput ==
    IF ctor.class = "Lut1D" THEN Len(ctor.data) >= 2
    ELSE ctor.size >= 2 /\ Len(ctor.data) = Cube(ctor.size) * Channels

\* C11: Lut1D::new rejects a table of fewer than 2 samples and Lut3D::new
\* rejects a grid size < 2 and a data length other than size^3 * channels,
\* each with a ConstructionError; no invalid LUT object is created and the
\* data of a created LUT is the data handed in, not cut, padded or resized.
C11_ConstructionValidates ==
    ctor.pc = "returned" =>
        /\ ~ValidCtorInput => (ctor.res.err = "ConstructionError" /\ ~ctor.res.lut.made)
        /\ ctor.res.lut.made =>
              /\ ctor.res.err = "none"
              /\ ctor.res.lut.data = ctor.data
              /\ ctor.res.lut.size >= 2
              /\ ctor.class = "Lut3D" =>
                    Len(ctor.res.lut.data) = Cube(ctor.res.lut.size) * Channels

\* a size-2 Lut3D was asked for with one value too few and was rejected
C11_Witness ==
    /\ ctor.pc = "returned" /\ ctor.class = "Lut3D" /\ ctor.size = 2
    /\ Len(ctor.data) = Cube(2) * Channels - 1
    /\ ctor.res = ConstructionError

\* ------------------------------------------------------------------------
\* 3D LUT producers and the corner fetch
\* ------------------------------------------------------------------------
Producers == {"create_test_lut", "identity_3d_lut_data", "lut3d_data"}

\* the k-th pass of a three-deep loop nest over range(size): the outer, the
\* middle and the inner loop variable
LoopVars(size, k) == <<k \div (size * size), (k \div size) % size, k % size>>

\* row-major position of element [i, j, l] of a size x size x size x 3 array,
\* counted in triples
RowMajor(size, i, j, l) == l + size * (j + size * i)

InitPROD ==
    /\ store = StoreIdle
    /\ test = TestIdle
    /\ apple = AppleIdle
    /\ skip = SkipIdle
    /\ gen = GenIdle
    /\ curve = CurveIdle
    /\ gold = GoldIdle
    /\ hash = HashIdle
    /\ img = ImgIdle
    /\ cell = CellIdle
    /\ fm = FmIdle
    /\ cdl = CdlIdle
    /\ lut3 = Lut3Idle
    /\ lut1 = Lut1Idle
    /\ ctor = CtorIdle
    /\ prod \in {[producer |-> q, size |-> size, k |-> 0,
                  data |-> IF q = "lut3d_data" THEN [i \in 1..Cube(size) |-> Unwritten]
                           ELSE <<>>,
                  at |-> Unwritten, got |-> Unwritten, pc |-> "fill"] :
                    q \in Producers, size \in LutSizes}

\* verify_lut3d.create_test_lut: for r, for g, for b: data.extend(triple)
CreateTestLutStep ==
    /\ prod.pc = "fill" /\ prod.producer = "create_test_lut"
    /\ IF prod.k < Cube(prod.size)
       THEN prod' = [prod EXCEPT !.data = Append(prod.data, LoopVars(prod.size, prod.k)),
                                 !.k = prod.k + 1]
       ELSE prod' = [prod EXCEPT !.pc = "filled"]
    /\ UNCHANGED <<fm, cdl, lut3, lut1, ctor, cell, img, hash, gold, curve, gen, skip, apple, test, store>>

\* test_lut_parity.identity_3d_lut_data: np.stack(meshgrid(r, g, b,
\* indexing='ij'), axis=-1), flattened: element [r, g, b] belongs to (r, g, b)
IdentityMeshgrid ==
    /\ prod.pc = "fill" /\ prod.producer = "identity_3d_lut_data"
    /\ prod' = [prod EXCEPT
                  !.data = [i \in 1..Cube(prod.size) |->
                              CHOOSE c \in (0..(prod.size - 1)) \X (0..(prod.size - 1))
                                               \X (0..(prod.size - 1)) :
                                  RowMajor(prod.size, c[1], c[2], c[3]) = i - 1],
                  !.k = Cube(prod.size), !.pc = "filled"]
    /\ UNCHANGED <<fm, cdl, lut3, lut1, ctor, cell, img, hash, gold, curve, gen, skip, apple, test, store>>

\* test/py/07_luts.py: for b, for g, for r: lut3d_data[b, g, r] = triple
Lut3dDataStep ==
    /\ prod.pc = "fill" /\ prod.producer = "lut3d_data"
    /\ IF prod.k < Cube(prod.size)
       THEN LET v == LoopVars(prod.size, prod.k)
                b == v[1]
                g == v[2]
                r == v[3]
            IN  prod' = [prod EXCEPT
                           !.data[RowMajor(prod.size, b, g, r) + 1] = <<r, g, b>>,
                           !.k = prod.k + 1]
       ELSE prod' = [prod EXCEPT !.pc = "filled"]
    /\ UNCHANGED <<fm, cdl, lut3, lut1, ctor, cell, img, hash, gold, curve, gen, skip, apple, test, store>>

\* get(r_idx, g_idx, b_idx) on the produced array
FetchCorner ==
    /\ prod.pc = "filled"
    /\ \E r \in 0..(prod.size - 1), g \in 0..(prod.size - 1), b \in 0..(prod.size - 1) :
          prod' = [prod EXCEPT !.at = <<r, g, b>>,
                               !.got = prod.data[(FlatIndex(prod.size, r, g, b) \div Channels) + 1],
                               !.pc = "fetched"]
    /\ UNCHANGED <<fm, cdl, lut3, lut1, ctor, cell, img, hash, gold, curve, gen, skip, apple, test, store>>

NextPROD == CreateTestLutStep \/ IdentityMeshgrid \/ Lut3dDataStep \/ FetchCorner

SpecPROD == InitPROD /\ [][NextPROD]_vars

\* C13: every 3D LUT producer stores the triple of grid coordinate (r, g, b)
\* at flat offset 3*(b + N*(g + N*r)), so get(r, g, b) reads the triple that
\* was stored for (r, g, b); the offset map is a bijection from the grid onto
\* the triples of the flat array.
C13_ProducersBlueFastest ==
    /\ prod.pc = "fetched" => prod.got = prod.at
    /\ prod.pc = "filled" =>
          {FlatIndex(prod.size, c[1], c[2], c[3]) :
              c \in (0..(prod.size - 1)) \X (0..(prod.size - 1)) \X (0..(prod.size - 1))}
            = {Channels * i : i \in 0..(Cube(prod.size) - 1)}

\* ------------------------------------------------------------------------
\* One cell of the tetrahedral interpolation, any corner values
\* ------------------------------------------------------------------------
\* the branch formulas are linear in the corners, so corner values 0 and 1
\* span every set of corner values
CornerValues == {0, 1}

InitCELL ==
    /\ store = StoreIdle
    /\ test = TestIdle
    /\ apple = AppleIdle
    /\ skip = SkipIdle
    /\ gen = GenIdle
    /\ curve = CurveIdle
    /\ gold = GoldIdle
    /\ hash = HashIdle
    /\ img = ImgIdle
    /\ fm = FmIdle
    /\ cdl = CdlIdle
    /\ lut3 = Lut3Idle
    /\ lut1 = Lut1Idle
    /\ ctor = CtorIdle
    /\ prod = ProdIdle
    /\ cell \in {[c |-> c, f |-> <<rf, gf, bf>>, vals |-> <<0, 0, 0, 0, 0, 0>>,
                  branch |-> 0, out |-> 0, tri |-> 0, pc |-> "start"] :
                    c \in [c000 : CornerValues, c100 : CornerValues, c010 : CornerValues,
                           c110 : CornerValues, c001 : CornerValues, c101 : CornerValues,
                           c011 : CornerValues, c111 : CornerValues],
                    rf \in 0..Sub, gf \in 0..Sub, bf \in 0..Sub}

InterpolateCell ==
    /\ cell.pc = "start"
    /\ cell' = [cell EXCEPT
                  !.vals = BranchValues(cell.c, cell.f[1], cell.f[2], cell.f[3]),
                  !.branch = TetraBranch(cell.f[1], cell.f[2], cell.f[3]),
                  !.out = Tetrahedral(cell.c, cell.f[1], cell.f[2], cell.f[3]),
                  !.tri = Trilinear(cell.c, cell.f[1], cell.f[2], cell.f[3]),
                  !.pc = "done"]
    /\ UNCHANGED <<fm, cdl, lut3, lut1, ctor, prod, img, hash, gold, curve, gen, skip, apple, test, store>>

NextCELL == InterpolateCell

SpecCELL == InitCELL /\ [][NextCELL]_vars

\* the closed tetrahedron of each branch
InTetrahedron(k, rf, gf, bf) ==
    CASE k = 1 -> rf >= gf /\ gf >= bf
      [] k = 2 -> rf >= bf /\ bf >= gf
      [] k = 3 -> bf >= rf /\ rf >= gf
      [] k = 4 -> gf >= rf /\ rf >= bf
      [] k = 5 -> gf >= bf /\ bf >= rf
      [] k = 6 -> bf >= gf /\ gf >= rf

\* C14: at each of the six boundaries between tetrahedra the two branch
\* formulas that meet there give the same value for every set of corner
\* values (T1/T2 and T6/T5 at gf = bf, T2/T3 and T5/T4 at rf = bf, T3/T6 and
\* T4/T1 at rf = gf), so the result does not depend on the tie-break: it is
\* the value of every branch whose closed tetrahedron holds the point.
C14_TetrahedraContinuous ==
    cell.pc = "done" =>
        LET rf == cell.f[1]
            gf == cell.f[2]
            bf == cell.f[3]
            v == cell.vals
        IN  /\ gf = bf => (v[1] = v[2] /\ v[6] = v[5])
            /\ rf = bf => (v[2] = v[3] /\ v[5] = v[4])
            /\ rf = gf => (v[3] = v[6] /\ v[4] = v[1])
            /\ \A k \in 1..6 : InTetrahedron(k, rf, gf, bf) => v[k] = cell.out

\* a point on the boundary rf = gf > bf, where T4 is taken and T1 agrees
\* although both differ from T3
C14_Witness ==
    /\ cell.pc = "done" /\ cell.f = <<2, 2, 1>> /\ cell.branch = 4
    /\ cell.c.c110 = 1 /\ cell.c.c111 = 0 /\ cell.c.c000 = 0 /\ cell.c.c100 = 1
    /\ cell.vals[1] = cell.vals[4] /\ cell.vals[3] # cell.vals[4]

\* the region of the fraction cube the comments of each branch name
BranchRegion(k, rf, gf, bf) ==
    CASE k = 1 -> rf > gf /\ gf > bf
      [] k = 2 -> rf > bf /\ bf >= gf
      [] k = 3 -> bf >= rf /\ rf > gf
      [] k = 4 -> gf >= rf /\ rf >= bf
      [] k = 5 -> gf >= bf /\ bf > rf
      [] k = 6 -> bf > gf /\ gf >= rf

\* C24: the tetrahedral interpolation takes exactly one of the six branches
\* and the branch is the one whose region holds the fractions: T1 iff
\* rf > gf > bf, T2 iff rf > bf >= gf, T3 iff bf >= rf > gf, T4 iff
\* gf >= rf >= bf, T5 iff gf >= bf > rf, T6 iff bf > gf >= rf.  The regions
\* are pairwise disjoint and cover every (rf, gf, bf); rf = gf = bf is T4.
C24_BranchRegions ==
    cell.pc = "done" =>
        LET rf == cell.f[1]
            gf == cell.f[2]
            bf == cell.f[3]
        IN  /\ cell.branch \in 1..6
            /\ \A k \in 1..6 : (cell.branch = k) <=> BranchRegion(k, rf, gf, bf)
            /\ Cardinality({k \in 1..6 : BranchRegion(k, rf, gf, bf)}) = 1
            /\ (rf = gf /\ gf = bf) => cell.branch = 4
            /\ cell.out = cell.vals[cell.branch]

\* a cell with rf = gf = bf strictly inside has been interpolated by T4
C24_Witness ==
    /\ cell.pc = "done" /\ cell.f = <<1, 1, 1>> /\ cell.branch = 4
    /\ BranchRegion(4, 1, 1, 1) /\ ~BranchRegion(1, 1, 1, 1)
    /\ cell.out = cell.vals[4]

CornerNames == {"c000", "c100", "c010", "c110", "c001", "c101", "c011", "c111"}
SumCorners(w) == w.c000 + w.c100 + w.c010 + w.c110 + w.c001 + w.c101 + w.c011 + w.c111

\* the cell whose corner j is 1 and whose other corners are 0
UnitCell(j) ==
    [c000 |-> IF j = "c000" THEN 1 ELSE 0, c100 |-> IF j = "c100" THEN 1 ELSE 0,
     c010 |-> IF j = "c010" THEN 1 ELSE 0, c110 |-> IF j = "c110" THEN 1 ELSE 0,
     c001 |-> IF j = "c001" THEN 1 ELSE 0, c101 |-> IF j = "c101" THEN 1 ELSE 0,
     c011 |-> IF j = "c011" THEN 1 ELSE 0, c111 |-> IF j = "c111" THEN 1 ELSE 0]

\* the weight each method gives to corner j: its output on the unit cell of j
\* (numerators over Sub and over Sub^3)
TetraWeights(rf, gf, bf) == [j \in CornerNames |-> Tetrahedral(UnitCell(j), rf, gf, bf)]
TriWeights(rf, gf, bf) == [j \in CornerNames |-> Trilinear(UnitCell(j), rf, gf, bf)]
Weighted(w, c) == [j \in CornerNames |-> w[j] * c[j]]
CornerMin(c) == CHOOSE v \in {c[j] : j \in CornerNames} : \A j \in CornerNames : v <= c[j]
CornerMax(c) == CHOOSE v \in {c[j] : j \in CornerNames} : \A j \in CornerNames : v >= c[j]

\* C27: the tetrahedral and the trilinear output of a cell are convex
\* combinations of the cell's 8 corner values: the output is the weighted sum
\* of the corners with weights that are all >= 0 and sum to 1, so it lies
\* between the smallest and the largest corner value (no overshoot).
C27_ConvexCombination ==
    cell.pc = "done" =>
        LET tw == TetraWeights(cell.f[1], cell.f[2], cell.f[3])
            lw == TriWeights(cell.f[1], cell.f[2], cell.f[3])
        IN  /\ \A j \in CornerNames : tw[j] >= 0 /\ lw[j] >= 0
            /\ SumCorners(tw) = Sub
            /\ SumCorners(lw) = Sub * Sub * Sub
            /\ cell.out = SumCorners(Weighted(tw, cell.c))
            /\ cell.tri = SumCorners(Weighted(lw, cell.c))
            /\ Sub * CornerMin(cell.c) <= cell.out
            /\ cell.out <= Sub * CornerMax(cell.c)
            /\ Sub * Sub * Sub * CornerMin(cell.c) <= cell.tri
            /\ cell.tri <= Sub * Sub * Sub * CornerMax(cell.c)

\* a cell with mixed corners and fractions strictly inside: both outputs lie
\* strictly between the smallest and the largest corner
C27_Witness ==
    /\ cell.pc = "done" /\ cell.f = <<2, 1, 1>>
    /\ cell.c.c000 = 0 /\ cell.c.c100 = 1 /\ cell.c.c110 = 0 /\ cell.c.c111 = 1
    /\ cell.out > 0 /\ cell.out < Sub
    /\ cell.tri > 0 /\ cell.tri < Sub * Sub * Sub

\* corner positions (r, g, b) of a cell and the corner they name
Bits3 == {0, 1} \X {0, 1} \X {0, 1}
CornerKey(t) ==
    CASE t = <<0, 0, 0>> -> "c000" [] t = <<1, 0, 0>> -> "c100"
      [] t = <<0, 1, 0>> -> "c010" [] t = <<1, 1, 0>> -> "c110"
      [] t = <<0, 0, 1>> -> "c001" [] t = <<1, 0, 1>> -> "c101"
      [] t = <<0, 1, 1>> -> "c011" [] t = <<1, 1, 1>> -> "c111"
CellOf(fn) ==
    [c000 |-> fn[<<0, 0, 0>>], c100 |-> fn[<<1, 0, 0>>], c010 |-> fn[<<0, 1, 0>>],
     c110 |-> fn[<<1, 1, 0>>], c001 |-> fn[<<0, 0, 1>>], c101 |-> fn[<<1, 0, 1>>],
     c011 |-> fn[<<0, 1, 1>>], c111 |-> fn[<<1, 1, 1>>]]
FarSide(k) == {t \in Bits3 : t[k] = 1}

\* the cell after c along axis k: its near plane is c's far plane (the grid
\* points get(.. + 1 ..) of c are get(.. + 0 ..) of the next cell), its far
\* plane holds the values far
NextCell(c, k, far) ==
    CellOf([t \in Bits3 |-> IF t[k] = 0 THEN c[CornerKey([t EXCEPT ![k] = 1])] ELSE far[t]])

\* c with the corners of its near plane on axis k replaced by the values near
WithNearPlane(c, k, near) ==
    CellOf([t \in Bits3 |-> IF t[k] = 0 THEN near[[t EXCEPT ![k] = 1]] ELSE c[CornerKey(t)]])

\* C28: the interpolation is continuous across the face between adjacent
\* cells: a point on the face evaluated in cell i with fraction 1 gives the
\* same value as in cell i+1 with fraction 0, by the tetrahedral and by the
\* trilinear method, for all corner values.  The index is capped at N-2, so
\* v = 1 is evaluated in the last cell with fraction 1 and returns the value
\* of the last grid plane alone.
C28_ContinuousAcrossFaces ==
    cell.pc = "done" =>
        \A k \in 1..3 :
            cell.f[k] = Sub =>
                LET f0 == [cell.f EXCEPT ![k] = 0]
                IN  /\ \A far \in [FarSide(k) -> CornerValues] :
                          /\ Tetrahedral(NextCell(cell.c, k, far), f0[1], f0[2], f0[3]) = cell.out
                          /\ Trilinear(NextCell(cell.c, k, far), f0[1], f0[2], f0[3]) = cell.tri
                          /\ Tetrahedral(WithNearPlane(cell.c, k, far), cell.f[1], cell.f[2], cell.f[3])
                                = cell.out
                          /\ Trilinear(WithNearPlane(cell.c, k, far), cell.f[1], cell.f[2], cell.f[3])
                                = cell.tri
                    /\ \A size \in 3..(MaxLutSize + 1) :
                          /\ \A i \in 1..(size - 2) :
                                /\ CellIndex(i * Sub, size - 1) = i
                                /\ CellFraction(i * Sub, size - 1) = 0
                          /\ CellIndex((size - 1) * Sub, size - 1) = size - 2
                          /\ CellFraction((size - 1) * Sub, size - 1) = Sub

\* a point on the blue face (bf = 1, gf > rf) of a cell whose far-plane
\* corners differ: the tetrahedral branch T6 was taken there
C28_Witness ==
    /\ cell.pc = "done" /\ cell.f = <<1, 2, Sub>> /\ cell.branch = 6
    /\ cell.c.c001 = 0 /\ cell.c.c011 = 1 /\ cell.c.c101 = 0 /\ cell.c.c111 = 1
    /\ cell.out = Tetrahedral(NextCell(cell.c, 3, [t \in FarSide(3) |-> 0]), 1, 2, 0)

\* ------------------------------------------------------------------------
\* Per-pixel transforms over an image, sequentially and by chunk workers
\* ------------------------------------------------------------------------
ImgLen == 4
NumWorkers == 2

\* the body of apply_cdl_manual's pixel loop
CdlPixel(rgb, g) ==
    FinalClamp(SaturationStage(
        [k \in 1..3 |-> PowerStage(ClampStage(SopStage(rgb[k], g.slope[k], g.offset[k])),
                                   g.power[k]).val],
        g.sat))

\* mutant: the loop body reads the buffer one position earlier
ReadPixel_Previous(kind, pixels, result, i) ==
    IF kind = "cdl" THEN result[IF i > 1 THEN i - 1 ELSE i] ELSE pixels[i]

\* apply_cdl_manual works in place on result = pixels.copy() and reads
\* result[i]; the LUT functions read test_pixels[pi] and write a fresh
\* result buffer
ReadPixel(kind, pixels, result, i) ==
    IF kind = "cdl" THEN result[i] ELSE pixels[i]

ImgLut == TestLut(2)

TransformAt(kind, g, pixels, result, i) ==
    IF kind = "cdl" THEN CdlPixel(ReadPixel(kind, pixels, result, i), g)
    ELSE apply_rust_style_tetrahedral(ImgLut, ReadPixel(kind, pixels, result, i))

InitialResult(kind, pixels) ==
    IF kind = "cdl" THEN pixels ELSE [i \in 1..Len(pixels) |-> ZeroTriple]

\* the sequential loop from position i on
RECURSIVE SequentialFrom(_, _, _, _, _)
SequentialFrom(kind, g, pixels, result, i) ==
    IF i > Len(pixels) THEN result
    ELSE SequentialFrom(kind, g, pixels,
                        [result EXCEPT ![i] = TransformAt(kind, g, pixels, result, i)], i + 1)

Sequential(kind, g, pixels) == SequentialFrom(kind, g, pixels, InitialResult(kind, pixels), 1)

\* chunks of `chunk` consecutive positions, the last one possibly shorter
NumChunks(n, chunk) == (n + chunk - 1) \div chunk
ChunkStart(chunk, c) == (c - 1) * chunk + 1
ChunkLen(n, chunk, c) == Min(chunk, n - (c - 1) * chunk)
ChunkOf(chunk, pos) == ((pos - 1) \div chunk) + 1

CdlImage == [i \in 1..ImgLen |-> Triple(FromRat(i, ImgLen), Half, FromRat(ImgLen - i, ImgLen))]
LutImage == [i \in 1..ImgLen |-> <<i % (Sub + 1), (2 * i) % (Sub + 1), (i + 1) % (Sub + 1)>>]

InitIMG ==
    /\ store = StoreIdle
    /\ test = TestIdle
    /\ apple = AppleIdle
    /\ skip = SkipIdle
    /\ gen = GenIdle
    /\ curve = CurveIdle
    /\ gold = GoldIdle
    /\ hash = HashIdle
    /\ fm = FmIdle
    /\ cdl = CdlIdle
    /\ lut3 = Lut3Idle
    /\ lut1 = Lut1Idle
    /\ ctor = CtorIdle
    /\ prod = ProdIdle
    /\ cell = CellIdle
    /\ \E kind \in {"cdl", "lut"}, g \in {CDL_CONTRAST, CDL_WARMUP}, chunk \in 1..ImgLen :
          /\ kind = "lut" => g = CDL_CONTRAST
          /\ LET pixels == IF kind = "cdl" THEN CdlImage ELSE LutImage
             IN  img = [kind |-> kind, grade |-> g, pixels |-> pixels,
                        result |-> InitialResult(kind, pixels), chunk |-> chunk, next |-> 1,
                        worker |-> [w \in 1..NumWorkers |-> [chunk |-> 0, j |-> 0]],
                        writers |-> [i \in 1..ImgLen |-> {}], finished |-> <<>>]

TakeChunk(w) ==
    /\ img.worker[w].chunk = 0
    /\ img.next <= NumChunks(Len(img.pixels), img.chunk)
    /\ img' = [img EXCEPT !.worker[w] = [chunk |-> img.next, j |-> 0], !.next = img.next + 1]
    /\ UNCHANGED <<fm, cdl, lut3, lut1, ctor, prod, cell, hash, gold, curve, gen, skip, apple, test, store>>

ProcessPixel(w) ==
    /\ img.worker[w].chunk # 0
    /\ img.worker[w].j < ChunkLen(Len(img.pixels), img.chunk, img.worker[w].chunk)
    /\ LET pos == ChunkStart(img.chunk, img.worker[w].chunk) + img.worker[w].j
       IN  img' = [img EXCEPT
                     !.result[pos] = TransformAt(img.kind, img.grade, img.pixels, img.result, pos),
                     !.writers[pos] = @ \cup {img.worker[w].chunk},
                     !.worker[w].j = @ + 1]
    /\ UNCHANGED <<fm, cdl, lut3, lut1, ctor, prod, cell, hash, gold, curve, gen, skip, apple, test, store>>

FinishChunk(w) ==
    /\ img.worker[w].chunk # 0
    /\ img.worker[w].j = ChunkLen(Len(img.pixels), img.chunk, img.worker[w].chunk)
    /\ img' = [img EXCEPT !.finished = Append(@, img.worker[w].chunk),
                          !.worker[w] = [chunk |-> 0, j |-> 0]]
    /\ UNCHANGED <<fm, cdl, lut3, lut1, ctor, prod, cell, hash, gold, curve, gen, skip, apple, test, store>>

NextIMG == \E w \in 1..NumWorkers : TakeChunk(w) \/ ProcessPixel(w) \/ FinishChunk(w)

SpecIMG == InitIMG /\ [][NextIMG]_vars

ImgDone == Len(img.finished) = NumChunks(Len(img.pixels), img.chunk)

\* C15: an image processed in chunks by concurrent workers, in any
\* interleaving and completion order, ends with exactly the output buffer of
\* the sequential loop, and no worker writes a position of another chunk.
C15_ChunkedEqualsSequential ==
    /\ ImgDone => img.result = Sequential(img.kind, img.grade, img.pixels)
    /\ \A pos \in 1..Len(img.pixels) : img.writers[pos] \subseteq {ChunkOf(img.chunk, pos)}

\* a CDL image was finished by two workers with the second chunk completing
\* before the first
C15_Witness ==
    /\ img.kind = "cdl" /\ img.grade = CDL_CONTRAST /\ img.chunk = 2
    /\ ImgDone /\ img.finished = <<2, 1>>
    /\ img.result # img.pixels

\* ------------------------------------------------------------------------
\* Hash helpers.  A pixel value is the integer k standing for k * 1e-7; the
\* rounding of float32 products is not modelled.  A SHA-256 digest is
\* represented by the byte string it was computed from.
\* ------------------------------------------------------------------------
\* data.flatten(), and the C order of data.tobytes(): row by row
RECURSIVE Flatten(_)
Flatten(rows) == IF rows = <<>> THEN <<>> ELSE Head(rows) \o Flatten(Tail(rows))

\* np.round(k * 1e-7 * 10^5): to the nearest integer, ties to even
RoundHalfEven(k, d) ==
    LET q == k \div d
        r == k % d
    IN  IF 2 * r < d THEN q
        ELSE IF 2 * r > d THEN q + 1
        ELSE IF q % 2 = 0 THEN q ELSE q + 1

\* astype of a float array to an integer type: toward zero
TruncToZero(k, d) == IF k >= 0 THEN k \div d ELSE -((-k) \div d)

\* little-endian two's complement bytes of n (|n| < 2^31) in `width` bytes
LittleEndian(n, width) ==
    [i \in 1..width |->
        IF i <= 4 THEN (n \div Pow2[8 * (i - 1)]) % 256
        ELSE IF n < 0 THEN 255 ELSE 0]

RECURSIVE ToBytes(_, _)
ToBytes(ints, width) ==
    IF ints = <<>> THEN <<>>
    ELSE LittleEndian(Head(ints), width) \o ToBytes(Tail(ints), width)

Sha256(bytes) == <<"sha256", bytes>>

\* generate_golden.compute_hash: np.round(data * 10**5).astype(np.int64)
compute_hash(data) ==
    LET flat == Flatten(data)
    IN  Sha256(ToBytes([i \in 1..Len(flat) |-> RoundHalfEven(flat[i], 100)], 8))

\* compare_cdl.compute_hash: np.round(data.flatten() * 1e5).astype(np.int64)
compute_hash_debug(data) ==
    LET flat == Flatten(data)
    IN  Sha256(ToBytes([i \in 1..Len(flat) |-> RoundHalfEven(flat[i], 100)], 8))

\* conftest.pixel_hash: (pixels * 1e6).astype(np.int32)
pixel_hash(pixels) ==
    LET flat == Flatten(pixels)
    IN  Sha256(ToBytes([i \in 1..Len(flat) |-> TruncToZero(flat[i], 10)], 4))

MaxHashRows == 2
\* 0, 1, 0.1234567, 0.000005, 0.000015 and -0.000025 in units of 1e-7
HashPixels == {<<0, 0, 0>>, <<10000000, 1234567, 50>>, <<150, -250, 10000000>>,
               <<1234567, 150, 0>>}

InitHASH ==
    /\ store = StoreIdle
    /\ test = TestIdle
    /\ apple = AppleIdle
    /\ skip = SkipIdle
    /\ gen = GenIdle
    /\ curve = CurveIdle
    /\ gold = GoldIdle
    /\ fm = FmIdle
    /\ cdl = CdlIdle
    /\ lut3 = Lut3Idle
    /\ lut1 = Lut1Idle
    /\ ctor = CtorIdle
    /\ prod = ProdIdle
    /\ cell = CellIdle
    /\ img = ImgIdle
    /\ hash \in {[data |-> d, golden |-> <<>>, test |-> <<>>, debug |-> <<>>, pc |-> "hashing"] :
                    d \in UNION {[1..n -> HashPixels] : n \in 1..MaxHashRows}}

GoldenHash ==
    /\ hash.pc = "hashing" /\ hash.golden = <<>>
    /\ hash' = [hash EXCEPT !.golden = compute_hash(hash.data)]
    /\ UNCHANGED <<fm, cdl, lut3, lut1, ctor, prod, cell, img, gold, curve, gen, skip, apple, test, store>>

TestHash ==
    /\ hash.pc = "hashing" /\ hash.test = <<>>
    /\ hash' = [hash EXCEPT !.test = pixel_hash(hash.data)]
    /\ UNCHANGED <<fm, cdl, lut3, lut1, ctor, prod, cell, img, gold, curve, gen, skip, apple, test, store>>

DebugHash ==
    /\ hash.pc = "hashing" /\ hash.debug = <<>>
    /\ hash' = [hash EXCEPT !.debug = compute_hash_debug(hash.data)]
    /\ UNCHANGED <<fm, cdl, lut3, lut1, ctor, prod, cell, img, gold, curve, gen, skip, apple, test, store>>

NextHASH == GoldenHash \/ TestHash \/ DebugHash

SpecHASH == InitHASH /\ [][NextHASH]_vars

\* C16: every hash helper hashes the same quantization (SHA-256 over the
\* int64 values round(value * 1e5) in row-major order), so the same pixel
\* data gets the same hash from conftest.pixel_hash, from
\* generate_golden.compute_hash and from the debug scripts.
C16_HashHelpersAgree ==
    (hash.golden # <<>> /\ hash.test # <<>> /\ hash.debug # <<>>) =>
        (hash.test = hash.golden /\ hash.debug = hash.golden)

\* ------------------------------------------------------------------------
\* Golden hashes: generate_all_hashes, then load_golden_hash
\* ------------------------------------------------------------------------
TransferNames == {"pq_to_linear", "hlg_oetf_inv"}
MatrixNames == {"srgb_to_xyz"}
CdlNames == {"cdl_warmup", "cdl_contrast"}
Categories == {"transfers", "matrices", "cdl"}
LookupNames == TransferNames \cup MatrixNames \cup CdlNames \cup Categories

\* hashes[name] = {"hash": compute_hash(result), ...}
GoldenEntry(name) == [hash |-> Sha256(<<name>>), stats |-> name]

\* a generate_*_hashes function: an entry per test, a test that raises is
\* skipped
CategoryHashes(done) == [name \in done |-> GoldenEntry(name)]

\* every test name the generator produced
ProducedNames(tests) == UNION {DOMAIN tests[cat] : cat \in DOMAIN tests}

InitGOLD ==
    /\ store = StoreIdle
    /\ test = TestIdle
    /\ apple = AppleIdle
    /\ skip = SkipIdle
    /\ gen = GenIdle
    /\ curve = CurveIdle
    /\ fm = FmIdle
    /\ cdl = CdlIdle
    /\ lut3 = Lut3Idle
    /\ lut1 = Lut1Idle
    /\ ctor = CtorIdle
    /\ prod = ProdIdle
    /\ cell = CellIdle
    /\ img = ImgIdle
    /\ hash = HashIdle
    /\ gold = [golden |-> <<>>, file |-> NoFile, name |-> "", outcome |-> "", entry |-> <<>>,
               pc |-> "transfers"]

\* golden["tests"]["transfers"] = generate_transfer_hashes()
GenerateTransfers ==
    /\ gold.pc = "transfers"
    /\ \E done \in SUBSET TransferNames :
          gold' = [gold EXCEPT !.golden = [cat \in {"transfers"} |-> CategoryHashes(done)],
                               !.pc = "matrices"]
    /\ UNCHANGED <<fm, cdl, lut3, lut1, ctor, prod, cell, img, hash, curve, gen, skip, apple, test, store>>

\* golden["tests"]["matrices"] = generate_matrix_hashes()
GenerateMatrices ==
    /\ gold.pc = "matrices"
    /\ \E done \in SUBSET MatrixNames :
          gold' = [gold EXCEPT
                     !.golden = [cat \in {"transfers", "matrices"} |->
                                   IF cat = "matrices" THEN CategoryHashes(done)
                                   ELSE gold.golden[cat]],
                     !.pc = "cdl"]
    /\ UNCHANGED <<fm, cdl, lut3, lut1, ctor, prod, cell, img, hash, curve, gen, skip, apple, test, store>>

\* golden["tests"]["cdl"] = generate_cdl_hashes()
GenerateCdl ==
    /\ gold.pc = "cdl"
    /\ \E done \in SUBSET CdlNames :
          gold' = [gold EXCEPT
                     !.golden = [cat \in Categories |->
                                   IF cat = "cdl" THEN CategoryHashes(done)
                                   ELSE gold.golden[cat]],
                     !.pc = "write"]
    /\ UNCHANGED <<fm, cdl, lut3, lut1, ctor, prod, cell, img, hash, curve, gen, skip, apple, test, store>>

\* json.dump(golden, f)
WriteHashes ==
    /\ gold.pc = "write"
    /\ gold' = [gold EXCEPT !.file = [exists |-> TRUE, tests |-> gold.golden], !.pc = "written"]
    /\ UNCHANGED <<fm, cdl, lut3, lut1, ctor, prod, cell, img, hash, curve, gen, skip, apple, test, store>>

\* load_golden_hash(name, golden_dir), before or after the file was written
load_golden_hash ==
    /\ gold.pc \in {"transfers", "written"}
    /\ \E name \in LookupNames :
          gold' = [gold EXCEPT
                     !.name = name,
                     !.outcome = IF ~gold.file.exists THEN "skip: Golden hashes not found"
                                 ELSE IF name \notin DOMAIN gold.file.tests
                                      THEN "skip: Golden hash not found for"
                                 ELSE "returned",
                     !.entry = IF gold.file.exists /\ name \in DOMAIN gold.file.tests
                               THEN gold.file.tests[name] ELSE <<>>,
                     !.pc = "loaded"]
    /\ UNCHANGED <<fm, cdl, lut3, lut1, ctor, prod, cell, img, hash, curve, gen, skip, apple, test, store>>

NextGOLD == GenerateTransfers \/ GenerateMatrices \/ GenerateCdl \/ WriteHashes \/ load_golden_hash

SpecGOLD == InitGOLD /\ [][NextGOLD]_vars

\* C17: after generate_all_hashes has written hashes.json,
\* load_golden_hash(name) returns the entry, with its hash, for every test
\* name the generator produced, instead of skipping the test.
C17_LoaderFindsGeneratedEntry ==
    (gold.pc = "loaded" /\ gold.file.exists /\ gold.name \in ProducedNames(gold.file.tests)) =>
        /\ gold.outcome = "returned"
        /\ gold.entry = GoldenEntry(gold.name)

\* ------------------------------------------------------------------------
\* Transfer curves: encode, decode, and encode at a second sample
\* ------------------------------------------------------------------------
CoarseSteps == 4
FineSteps == 4

\* the spacing of the samples taken around a curve's breakpoint
FineStep == QDec(2, 9)
\* the values of test_roundtrip_all
TestValues == {QDec(1, 3), QDec(1, 2), QDec(18, 2), QDec(5, 1), QOne}
Breakpoint(name) == IF name = "srgb" THEN SRGB_LINEAR_MAX ELSE HLG_BREAK

\* inputs in [0, 1]: an even grid, the test values, and samples on both
\* sides of the breakpoint between the curve's segments
CurveInputs(name) ==
    {QFrac(i, CoarseSteps) : i \in 0..CoarseSteps}
        \cup TestValues
        \cup {QAdd(Breakpoint(name), QMul(QInt(j), FineStep)) : j \in (-FineSteps)..FineSteps}

InitCURVE ==
    /\ store = StoreIdle
    /\ test = TestIdle
    /\ apple = AppleIdle
    /\ skip = SkipIdle
    /\ gen = GenIdle
    /\ fm = FmIdle
    /\ cdl = CdlIdle
    /\ lut3 = Lut3Idle
    /\ lut1 = Lut1Idle
    /\ ctor = CtorIdle
    /\ prod = ProdIdle
    /\ cell = CellIdle
    /\ img = ImgIdle
    /\ hash = HashIdle
    /\ gold = GoldIdle
    /\ curve = CurveIdle

\* encoded = encode(v)
EncodeStep ==
    /\ curve.pc = "idle"
    /\ \E name \in CurveNames : \E x \in CurveInputs(name) :
          curve' = [curve EXCEPT !.name = name, !.x = x,
                                 !.enc = Encode(name, VRat(x)), !.pc = "encoded"]
    /\ UNCHANGED <<fm, cdl, lut3, lut1, ctor, prod, cell, img, hash, gold, gen, skip, apple, test, store>>

\* decoded = decode(encoded)
DecodeStep ==
    /\ curve.pc = "encoded"
    /\ curve' = [curve EXCEPT !.dec = Decode(curve.name, curve.enc.val),
                              !.pc = "decoded"]
    /\ UNCHANGED <<fm, cdl, lut3, lut1, ctor, prod, cell, img, hash, gold, gen, skip, apple, test, store>>

\* results = [func(v) for v in values]: a later sample y >= x of the
\* increasing values is encoded as well
EncodeNextStep ==
    /\ curve.pc = "encoded"
    /\ \E y \in CurveInputs(curve.name) :
          /\ QLeq(curve.x, y)
          /\ curve' = [curve EXCEPT !.y = y, !.ency = Encode(curve.name, VRat(y)),
                                    !.pc = "sampled"]
    /\ UNCHANGED <<fm, cdl, lut3, lut1, ctor, prod, cell, img, hash, gold, gen, skip, apple, test, store>>

NextCURVE == EncodeStep \/ DecodeStep \/ EncodeNextStep

SpecCURVE == InitCURVE /\ [][NextCURVE]_vars

CURVE_RTOL == QDec(1, 4)

\* |v - x| <= rtol * x for x >= 0
WithinRelative(v, x, rtol) ==
    /\ AtMost(VCmp(v, QMul(x, QAdd(QOne, rtol))))
    /\ VCmp(v, QMul(x, QSub(QOne, rtol))) \in {"gt", "eq"}

\* the decode segment that inverts an encode segment
InverseSegment(seg) ==
    IF seg = "sqrt" THEN "square" ELSE IF seg = "log" THEN "exp" ELSE seg

RoundTripClose ==
    curve.pc = "decoded" => WithinRelative(curve.dec.val, curve.x, CURVE_RTOL)

\* the inputs just above the sRGB breakpoint whose code value is still at most
\* 0.04045: ((0.04045 + 0.055) / 1.055) ** 2.4 = 0.00313080728...
SRGB_SLIVER_END == QDec(31308073, 10)
InSrgbSliver ==
    /\ curve.name = "srgb"
    /\ QLt(SRGB_LINEAR_MAX, curve.x)
    /\ QLt(curve.x, SRGB_SLIVER_END)

VLeq(a, b) ==
    IF b.kind = "rat"
    THEN Let1(VCmp(a, b.B), LAMBDA c :
             IF AtMost(c) THEN "yes" ELSE IF c = "gt" THEN "no" ELSE "unknown")
    ELSE IF a.kind = "rat"
    THEN Let1(VCmp(b, a.B), LAMBDA c :
             IF c \in {"gt", "eq"} THEN "yes" ELSE IF c = "lt" THEN "no" ELSE "unknown")
    ELSE IF a.kind = b.kind /\ a.p = b.p /\ a.q = b.q /\ QEq(a.A, b.A) /\ QEq(a.B, b.B)
              /\ ~QIsNeg(a.A)
    THEN IF QLeq(a.arg, b.arg) THEN "yes" ELSE "no"
    ELSE IF \E m \in {SRGB_CODED_MAX, HLG_CODED_BREAK} :
                AtMost(VCmp(a, m)) /\ VCmp(b, m) \in {"gt", "eq"}
    THEN "yes"
    ELSE IF \E m \in {SRGB_CODED_MAX, HLG_CODED_BREAK} :
                VCmp(a, m) = "gt" /\ AtMost(VCmp(b, m))
    THEN "no"
    ELSE "unknown"

\* C19: every curve's encode is monotonically non-decreasing: for inputs
\* a <= b of the curve's domain, encode(a) <= encode(b), also when a and b
\* lie on different sides of a breakpoint.
C19_EncodeNonDecreasing ==
    curve.pc = "sampled" => VLeq(curve.enc.val, curve.ency.val) = "yes"

\* ------------------------------------------------------------------------
\* The RGB test cube: meshgrid + flatten, and the nested loops
\* ------------------------------------------------------------------------
MaxCubeSize == 8
CubeSizes == 2..MaxCubeSize

\* np.linspace(0, 1, size, dtype=np.float32), and i / (size - 1) as float32
Linspace(size) == [i \in 0..(size - 1) |-> FromRat(i, size - 1)]

\* np.meshgrid(r, g, b, indexing='xy'): the first two axes are swapped
Meshgrid_XY(r, g, b) ==
    [rr |-> [i \in DOMAIN g, j \in DOMAIN r, k \in DOMAIN b |-> r[j]],
     gg |-> [i \in DOMAIN g, j \in DOMAIN r, k \in DOMAIN b |-> g[i]],
     bb |-> [i \in DOMAIN g, j \in DOMAIN r, k \in DOMAIN b |-> b[k]]]

\* np.meshgrid(r, g, b, indexing='ij'): element [i, j, k] of the three grids
\* is r[i], g[j], b[k]
Meshgrid(r, g, b) ==
    [rr |-> [i \in DOMAIN r, j \in DOMAIN g, k \in DOMAIN b |-> r[i]],
     gg |-> [i \in DOMAIN r, j \in DOMAIN g, k \in DOMAIN b |-> g[j]],
     bb |-> [i \in DOMAIN r, j \in DOMAIN g, k \in DOMAIN b |-> b[k]]]

\* arr.flatten() of a size x size x size array: C order, last axis fastest
Ravel(arr, size) ==
    [n \in 1..Cube(size) |->
        arr[(n - 1) \div (size * size), ((n - 1) \div size) % size, (n - 1) % size]]

\* generate_rgb_cube: np.stack([rr.flatten(), gg.flatten(), bb.flatten()], axis=-1)
generate_rgb_cube(size) ==
    Let1(Linspace(size), LAMBDA lin :
        Let1(Meshgrid(lin, lin, lin), LAMBDA grids :
            Let3(Ravel(grids.rr, size), Ravel(grids.gg, size), Ravel(grids.bb, size),
                 LAMBDA fr, fg, fb : [n \in 1..Cube(size) |-> <<fr[n], fg[n], fb[n]>>])))

InitCUBE ==
    /\ store = StoreIdle
    /\ test = TestIdle
    /\ apple = AppleIdle
    /\ skip = SkipIdle
    /\ fm = FmIdle
    /\ cdl = CdlIdle
    /\ lut3 = Lut3Idle
    /\ lut1 = Lut1Idle
    /\ ctor = CtorIdle
    /\ prod = ProdIdle
    /\ cell = CellIdle
    /\ img = ImgIdle
    /\ hash = HashIdle
    /\ gold = GoldIdle
    /\ curve = CurveIdle
    /\ \E size \in CubeSizes : gen = [GenIdle EXCEPT !.size = size, !.pc = "python"]

\* python_cube = generate_rgb_cube_python(8)
GeneratePython ==
    /\ gen.pc = "python"
    /\ gen' = [gen EXCEPT !.python = generate_rgb_cube(gen.size), !.pc = "rust"]
    /\ UNCHANGED <<fm, cdl, lut3, lut1, ctor, prod, cell, img, hash, gold, curve, skip, apple, test, store>>

\* generate_rgb_cube_rust_style / generate_test_cube: one cube.append of the
\* loops for r, for g, for b; the list becomes a float32 array at the end
AppendRustStyle ==
    /\ gen.pc = "rust"
    /\ gen' = [gen EXCEPT
                  !.rust = Append(@, <<FromRat(gen.r, gen.size - 1),
                                       FromRat(gen.g, gen.size - 1),
                                       FromRat(gen.b, gen.size - 1)>>),
                  !.b = IF gen.b + 1 < gen.size THEN gen.b + 1 ELSE 0,
                  !.g = IF gen.b + 1 < gen.size THEN gen.g
                        ELSE IF gen.g + 1 < gen.size THEN gen.g + 1 ELSE 0,
                  !.r = IF gen.b + 1 < gen.size \/ gen.g + 1 < gen.size THEN gen.r
                        ELSE gen.r + 1,
                  !.pc = IF gen.b + 1 < gen.size \/ gen.g + 1 < gen.size
                            \/ gen.r + 1 < gen.size
                         THEN "rust" ELSE "done"]
    /\ UNCHANGED <<fm, cdl, lut3, lut1, ctor, prod, cell, img, hash, gold, curve, skip, apple, test, store>>

NextCUBE == GeneratePython \/ AppendRustStyle

SpecCUBE == InitCUBE /\ [][NextCUBE]_vars

\* C20: the test cube of side N has exactly N^3 pixels (512 for N = 8), the
\* pixel at flat index N*N*r + N*g + b (64*r + 8*g + b for N = 8) is
\* (r/(N-1), g/(N-1), b/(N-1)), and the meshgrid + flatten generator and the
\* nested-loop generator give the same sequence.
C20_CubeOrder ==
    gen.pc = "done" =>
        /\ Len(gen.python) = Cube(gen.size)
        /\ Len(gen.rust) = Cube(gen.size)
        /\ \A r \in 0..(gen.size - 1), g \in 0..(gen.size - 1), b \in 0..(gen.size - 1) :
              gen.python[gen.size * gen.size * r + gen.size * g + b + 1]
                  = <<FromRat(r, gen.size - 1), FromRat(g, gen.size - 1),
                      FromRat(b, gen.size - 1)>>
        /\ gen.rust = gen.python

C20_Witness ==
    /\ gen.pc = "done"
    /\ gen.size = MaxCubeSize
    /\ Len(gen.python) = Cube(MaxCubeSize)
    /\ gen.python[MaxCubeSize + 1] = <<PosZero, FromRat(1, MaxCubeSize - 1), PosZero>>
    /\ gen.rust[MaxCubeSize + 1] = <<PosZero, FromRat(1, MaxCubeSize - 1), PosZero>>

\* ------------------------------------------------------------------------
\* The saturation test of each CDL implementation
\* ------------------------------------------------------------------------
MaxSatMantissa == 4
MaxSatExponent == 10

\* 1e-9 in verify_cdl_final.apply_cdl_manual, 1e-6 in
\* compare_cdl.apply_cdl_rust_style and in debug_cdl.apply_cdl_manual
SAT_EPS_FINAL == QDec(1, 9)
SAT_EPS_RUST_STYLE == QDec(1, 6)
SAT_EPS_DEBUG == QDec(1, 6)

CdlImplementations == {"verify_cdl_final", "compare_cdl", "debug_cdl"}

SatEpsilonOf(impl) ==
    IF impl = "verify_cdl_final" THEN SAT_EPS_FINAL
    ELSE IF impl = "compare_cdl" THEN SAT_EPS_RUST_STYLE
    ELSE SAT_EPS_DEBUG

QAbs(a) == IF QIsNeg(a) THEN QNeg(a) ELSE a

\* if abs(sat - 1.0) > eps
SaturationRuns(s, eps) == QLt(eps, QAbs(QSub(s, QOne)))

\* saturation values 1 + m * 10^-e on both sides of 1, and 1 itself
SatValues ==
    {QOne} \cup {QAdd(QOne, QDec(sign * m, e)) :
                    sign \in {-1, 1}, m \in 2..MaxSatMantissa, e \in 1..MaxSatExponent}

InitSKIP ==
    /\ store = StoreIdle
    /\ test = TestIdle
    /\ apple = AppleIdle
    /\ fm = FmIdle
    /\ cdl = CdlIdle
    /\ lut3 = Lut3Idle
    /\ lut1 = Lut1Idle
    /\ ctor = CtorIdle
    /\ prod = ProdIdle
    /\ cell = CellIdle
    /\ img = ImgIdle
    /\ hash = HashIdle
    /\ gold = GoldIdle
    /\ curve = CurveIdle
    /\ gen = GenIdle
    /\ \E s \in SatValues : skip = [SkipIdle EXCEPT !.sat = s, !.pc = "grade"]

SaturationTest(impl) ==
    /\ skip.pc = "grade"
    /\ impl \notin DOMAIN skip.ran
    /\ skip' = [skip EXCEPT !.ran = [i \in DOMAIN skip.ran \cup {impl} |->
                                        IF i = impl
                                        THEN SaturationRuns(skip.sat, SatEpsilonOf(impl))
                                        ELSE skip.ran[i]]]
    /\ UNCHANGED <<fm, cdl, lut3, lut1, ctor, prod, cell, img, hash, gold, curve, gen, apple, test, store>>

\* verify_cdl_final.apply_cdl_manual
ManualFinalSaturation == SaturationTest("verify_cdl_final")
\* compare_cdl.apply_cdl_rust_style
RustStyleSaturation == SaturationTest("compare_cdl")
\* debug_cdl.apply_cdl_manual
DebugManualSaturation == SaturationTest("debug_cdl")

NextSKIP == ManualFinalSaturation \/ RustStyleSaturation \/ DebugManualSaturation

SpecSKIP == InitSKIP /\ [][NextSKIP]_vars

\* C21: the saturation stage is skipped exactly when |sat - 1.0| is below one
\* fixed epsilon that is the same in every CDL implementation, so for every
\* saturation value all implementations agree on whether the stage runs.
C21_SaturationSkipAgrees ==
    \A i \in DOMAIN skip.ran, j \in DOMAIN skip.ran : skip.ran[i] = skip.ran[j]

\* ------------------------------------------------------------------------
\* Apple Log decode (debug_apple_log.decode_manual), in exact arithmetic
\* ------------------------------------------------------------------------
AppleSteps == 40

R_0 == QDec(-5641088, 8)
R_T == QDec(1, 2)
\* 47.28711236, written as 47 + 0.28711236 to stay within machine integers
C == QAdd(QInt(47), QDec(28711236, 8))
BETA == QDec(964052, 8)
GAMMA == QDec(8550479, 8)
DELTA == QDec(69336945, 8)
BASE == QInt(2)

\* mutant: the threshold without the square
P_T_NoSquare == QMul(C, QSub(R_T, R_0))

\* P_T = C * (R_T - R_0) ** 2
P_T == QMul(C, QPow(QSub(R_T, R_0), 2))

\* np.sqrt(log_val / C) + R_0
AppleGamma(log_val) == VAddQ(VPow(VRat(QDiv(log_val, C)), 1, 2), R_0)

\* BASE ** ((log_val - DELTA) / GAMMA) - BETA, kept as base, exponent and
\* offset: arg is the base, the exponent is the rational ex
AppleLog(log_val) ==
    [kind |-> "exp2", A |-> QOne, B |-> QNeg(BETA), arg |-> BASE,
     ex |-> QDiv(QSub(log_val, DELTA), GAMMA)]

decode_manual(log_val) ==
    Let1(log_val, LAMBDA w :
        IF QLeq(P_T, w) THEN [seg |-> "log", val |-> AppleLog(w)]
        ELSE IF QLeq(QZero, w) THEN [seg |-> "gamma", val |-> AppleGamma(w)]
        ELSE [seg |-> "below", val |-> VRat(R_0)])

AppleFine == QDec(1, 9)
AppleInputs ==
    {QFrac(k, AppleSteps) : k \in (-AppleSteps)..(2 * AppleSteps)}
      \cup {P_T, QSub(P_T, AppleFine), QAdd(P_T, AppleFine), QNeg(AppleFine), AppleFine}

InitAPPLE ==
    /\ store = StoreIdle
    /\ test = TestIdle
    /\ fm = FmIdle
    /\ cdl = CdlIdle
    /\ lut3 = Lut3Idle
    /\ lut1 = Lut1Idle
    /\ ctor = CtorIdle
    /\ prod = ProdIdle
    /\ cell = CellIdle
    /\ img = ImgIdle
    /\ hash = HashIdle
    /\ gold = GoldIdle
    /\ curve = CurveIdle
    /\ gen = GenIdle
    /\ skip = SkipIdle
    /\ \E v \in AppleInputs : apple = [AppleIdle EXCEPT !.v = v, !.pc = "call"]

DecodeManual ==
    /\ apple.pc = "call"
    /\ apple' = Let1(decode_manual(apple.v), LAMBDA r :
                    [apple EXCEPT !.seg = r.seg, !.val = r.val, !.pc = "done"])
    /\ UNCHANGED <<fm, cdl, lut3, lut1, ctor, prod, cell, img, hash, gold, curve, gen, skip, test, store>>

NextAPPLE == DecodeManual

SpecAPPLE == InitAPPLE /\ [][NextAPPLE]_vars

\* val is sqrt(v / C) + R_0: a rational whose offset from R_0 squares to
\* v / C, or the form 1 * (v / C) ** (1/2) + R_0
IsGammaValue(val, v) ==
    IF val.kind = "rat"
    THEN ~QIsNeg(QSub(val.B, R_0)) /\ QEq(QPow(QSub(val.B, R_0), 2), QDiv(v, C))
    ELSE /\ val.kind = "pow" /\ val.p = 1 /\ val.q = 2
         /\ QEq(val.arg, QDiv(v, C)) /\ QEq(val.A, QOne) /\ QEq(val.B, R_0)

\* val is 2 ** ((v - DELTA) / GAMMA) - BETA
IsLogValue(val, v) ==
    /\ val.kind = "exp2" /\ QEq(val.arg, QInt(2)) /\ QEq(val.A, QOne)
    /\ QEq(QAdd(QMul(val.ex, GAMMA), DELTA), v)
    /\ QEq(QAdd(val.B, BETA), QZero)

\* C25: Apple Log decode selects exactly one of three segments from the
\* coded value v: v < 0 gives the constant R_0; 0 <= v < P_t gives
\* sqrt(v/C) + R_0; v >= P_t gives 2^((v - delta)/gamma) - beta, with
\* P_t = C*(R_t - R_0)^2.  The constant and square-root segments meet at
\* v = 0 (both give R_0) and the square-root segment reaches exactly R_t at
\* v = P_t.
C25_AppleLogSegments ==
    apple.pc = "done" =>
        /\ apple.seg \in {"below", "gamma", "log"}
        /\ (apple.seg = "below") <=> QLt(apple.v, QZero)
        /\ (apple.seg = "gamma") <=> (QLeq(QZero, apple.v) /\ QLt(apple.v, P_T))
        /\ (apple.seg = "log") <=> QLeq(P_T, apple.v)
        /\ apple.seg = "below" => VCmp(apple.val, R_0) = "eq" /\ apple.val.kind = "rat"
        /\ apple.seg = "gamma" => IsGammaValue(apple.val, apple.v)
        /\ apple.seg = "log" => IsLogValue(apple.val, apple.v)
        /\ QEq(P_T, QMul(C, QMul(QSub(R_T, R_0), QSub(R_T, R_0))))
        /\ QIsZero(apple.v) => (apple.seg = "gamma" /\ VCmp(apple.val, R_0) = "eq")
        /\ VCmp(AppleGamma(P_T), R_T) = "eq"

\* the coded value P_t has been decoded by the exponential segment, and the
\* square-root formula at P_t is R_t
C25_Witness ==
    /\ apple.pc = "done" /\ QEq(apple.v, P_T) /\ apple.seg = "log"
    /\ VCmp(AppleGamma(apple.v), R_T) = "eq"

\* ------------------------------------------------------------------------
\* Parity tests: the try / except around the vfx-rs call and assert_close
\* ------------------------------------------------------------------------
ParityTests == {"test_vfx_cdl_apply", "test_vfx_3d_lut_identity", "test_vfx_vs_ocio_lut_apply"}

\* what the API lookup in the body can raise: the import of vfx_rs.ops or a
\* missing attribute in the first test, a missing attribute in the others
ApiFailures(name) ==
    IF name = "test_vfx_cdl_apply" THEN {"ImportError", "AttributeError"}
    ELSE {"AttributeError"}

\* the classes named by the except clause of each test
ExceptTuple(name) ==
    CASE name = "test_vfx_cdl_apply" -> {"ImportError", "AttributeError", "Exception"}
      [] name = "test_vfx_3d_lut_identity" -> {"AttributeError", "Exception"}
      [] name = "test_vfx_vs_ocio_lut_apply" -> {"Exception"}

\* Python's hierarchy: ImportError, AttributeError and AssertionError derive
\* from Exception
IsSubclass(exc, class) == exc = class \/ class = "Exception"
Caught(name, exc) == \E class \in ExceptTuple(name) : IsSubclass(exc, class)

\* np.testing.assert_allclose(actual, expected, rtol, atol)
assert_close(actual, expected, rtol, atol) ==
    IF IsClose(actual, expected, rtol, atol) THEN "none" ELSE "AssertionError"

\* one element of the vfx-rs output and of the reference
ParityValues == {PosZero, F32(0, 107, 0), F32(0, 126, 0), F32(0, 126, 1), F32(0, 126, 2000)}

InitTEST ==
    /\ store = StoreIdle
    /\ fm = FmIdle
    /\ cdl = CdlIdle
    /\ lut3 = Lut3Idle
    /\ lut1 = Lut1Idle
    /\ ctor = CtorIdle
    /\ prod = ProdIdle
    /\ cell = CellIdle
    /\ img = ImgIdle
    /\ hash = HashIdle
    /\ gold = GoldIdle
    /\ curve = CurveIdle
    /\ gen = GenIdle
    /\ skip = SkipIdle
    /\ apple = AppleIdle
    /\ \E name \in ParityTests, a \in ParityValues, e \in ParityValues :
         \E api \in {"available"} \cup ApiFailures(name) :
            test = [TestIdle EXCEPT !.name = name, !.api = api, !.actual = a,
                                    !.expected = e, !.pc = "try"]

\* the body of the try block: the API lookup, the call, then assert_close
TryBody ==
    /\ test.pc = "try"
    /\ LET exc == IF test.api # "available" THEN test.api
                  ELSE assert_close(test.actual, test.expected, RTOL, ATOL)
       IN  test' = [test EXCEPT !.exc = exc,
                                !.outcome = IF exc = "none" THEN "passed" ELSE "none",
                                !.pc = IF exc = "none" THEN "done" ELSE "except"]
    /\ UNCHANGED <<fm, cdl, lut3, lut1, ctor, prod, cell, img, hash, gold, curve, gen, skip, apple, store>>

\* the except clause: a caught exception becomes pytest.skip, any other
\* propagates and fails the test
ExceptClause ==
    /\ test.pc = "except"
    /\ test' = [test EXCEPT !.outcome = IF Caught(test.name, test.exc) THEN "skipped"
                                        ELSE "failed",
                            !.pc = "done"]
    /\ UNCHANGED <<fm, cdl, lut3, lut1, ctor, prod, cell, img, hash, gold, curve, gen, skip, apple, store>>

NextTEST == TryBody \/ ExceptClause

SpecTEST == InitTEST /\ [][NextTEST]_vars

\* C26: in the parity tests a mismatch beyond the tolerance ends the test as
\* FAILED: the AssertionError of assert_close is never turned into a SKIP,
\* and only an unavailable API (ImportError / AttributeError) leads to a skip.
C26_MismatchFails ==
    test.pc = "done" =>
        /\ test.exc = "AssertionError" => test.outcome = "failed"
        /\ test.outcome = "skipped" => test.exc \in {"ImportError", "AttributeError"}

\* ------------------------------------------------------------------------
\* Golden hashes: save_golden_hash calls on one directory, then a load.
\* A dict is the sequence of its <<key, value>> items in insertion order;
\* json.dump / json.load keep the items, their order and their values
\* (strings, lists of ints and finite floats).
\* ------------------------------------------------------------------------
MaxSaves == 3

DictHas(d, k) == \E i \in DOMAIN d : d[i][1] = k
DictGet(d, k) == d[CHOOSE i \in DOMAIN d : d[i][1] = k][2]
DictKeys(d) == {d[i][1] : i \in DOMAIN d}
\* d[k] = v: an existing key keeps its place, a new key goes last
DictSet(d, k, v) ==
    IF DictHas(d, k) THEN [i \in DOMAIN d |-> IF d[i][1] = k THEN <<k, v>> ELSE d[i]]
    ELSE Append(d, <<k, v>>)

\* {"version": "1.0", "tolerance": RTOL, "tests": {}}
NewHashes == << <<"version", "1.0">>, <<"tolerance", "RTOL">>, <<"tests", <<>> >> >>

\* the file generate_golden.py writes into the same directory
GeneratedHashes ==
    << <<"version", "1.0">>, <<"generated", "isoformat">>, <<"ocio_version", "OCIO_VERSION">>,
       <<"tolerance", "TOLERANCE">>, <<"input_data", "gray_ramp_256">>,
       <<"tests", << <<"transfers", << <<"pq_to_linear", GoldenEntry("pq_to_linear")>> >> >>,
                     <<"cdl", << <<"cdl_warmup", GoldenEntry("cdl_warmup")>> >> >> >> >> >>

\* mutant: the existing file is not read back
ReadHashes_AlwaysNew(file) == NewHashes

\* if hash_file.exists(): hashes = json.load(f)  else: the new header
ReadHashes(file) == IF file.exists THEN file.hashes ELSE NewHashes

SaveNames == {"cdl_warmup", "lut_identity", "transfers"}
\* pixel arrays in units of 1e-7; the empty array makes np.min raise
SavePixels == {<<>>, <<<<0, 0, 0>>>>, <<<<10000000, 1234567, 50>>, <<150, -250, 10000000>>>>}

NpMin(pixels) == CHOOSE v \in {Flatten(pixels)[i] : i \in 1..Len(Flatten(pixels))} :
                    \A i \in 1..Len(Flatten(pixels)) : v <= Flatten(pixels)[i]
NpMax(pixels) == CHOOSE v \in {Flatten(pixels)[i] : i \in 1..Len(Flatten(pixels))} :
                    \A i \in 1..Len(Flatten(pixels)) : v >= Flatten(pixels)[i]

\* {"hash": ..., "shape": ..., "dtype": ..., "min": ..., "max": ...}
SavedEntry(pixels) ==
    [hash |-> pixel_hash(pixels), shape |-> <<Len(pixels), 3>>, dtype |-> "float32",
     min |-> NpMin(pixels), max |-> NpMax(pixels)]

InitSAVE ==
    /\ fm = FmIdle
    /\ cdl = CdlIdle
    /\ lut3 = Lut3Idle
    /\ lut1 = Lut1Idle
    /\ ctor = CtorIdle
    /\ prod = ProdIdle
    /\ cell = CellIdle
    /\ img = ImgIdle
    /\ hash = HashIdle
    /\ gold = GoldIdle
    /\ curve = CurveIdle
    /\ gen = GenIdle
    /\ skip = SkipIdle
    /\ apple = AppleIdle
    /\ test = TestIdle
    /\ \E f \in {NoHashes, [exists |-> TRUE, hashes |-> NewHashes],
                 [exists |-> TRUE, hashes |-> GeneratedHashes]} :
          store = [StoreIdle EXCEPT !.file = f, !.init = f, !.pc = "ready"]

\* save_golden_hash(name, pixels, golden_dir); np.min of an empty array
\* raises before the file is opened for writing
save_golden_hash ==
    /\ store.pc = "ready" /\ store.calls < MaxSaves
    /\ \E name \in SaveNames, pixels \in SavePixels :
          IF pixels = <<>>
          THEN store' = [store EXCEPT !.calls = @ + 1, !.name = "", !.outcome = "raised",
                                      !.entry = <<>>]
          ELSE LET hashes == ReadHashes(store.file)
                   entry  == SavedEntry(pixels)
                   tests  == DictSet(DictGet(hashes, "tests"), name, entry)
               IN  store' = [store EXCEPT
                      !.file = [exists |-> TRUE, hashes |-> DictSet(hashes, "tests", tests)],
                      !.last = [n \in DOMAIN store.last \cup {name} |->
                                  IF n = name THEN entry ELSE store.last[n]],
                      !.calls = @ + 1, !.name = "", !.outcome = "saved", !.entry = <<>>]
    /\ UNCHANGED <<fm, cdl, lut3, lut1, ctor, prod, cell, img, hash, gold, curve, gen, skip, apple, test>>

\* load_golden_hash(name, golden_dir) on the directory of the saves
LoadSavedHash ==
    /\ store.pc = "ready" /\ store.name = ""
    /\ \E name \in SaveNames :
          LET found == store.file.exists /\ DictHas(DictGet(store.file.hashes, "tests"), name)
          IN  store' = [store EXCEPT
                 !.name = name,
                 !.outcome = IF found THEN "returned" ELSE "skip",
                 !.entry = IF found THEN DictGet(DictGet(store.file.hashes, "tests"), name)
                           ELSE <<>>]
    /\ UNCHANGED <<fm, cdl, lut3, lut1, ctor, prod, cell, img, hash, gold, curve, gen, skip, apple, test>>

NextSAVE == save_golden_hash \/ LoadSavedHash

SpecSAVE == InitSAVE /\ [][NextSAVE]_vars

Header(hashes) == SelectSeq(hashes, LAMBDA item : item[1] # "tests")
FileTests(file) == IF file.exists THEN DictGet(file.hashes, "tests") ELSE <<>>
NoDuplicateKeys(d) == \A i \in DOMAIN d, j \in DOMAIN d : d[i][1] = d[j][1] => i = j

\* C30: after any sequence of save_golden_hash calls on one golden
\* directory, hashes.json holds, for every test name ever saved, the entry of
\* the most recent save under that name; a save leaves the entries of all
\* other names and the version/tolerance header unchanged; and a following
\* load_golden_hash(name) returns the entry last saved for that name.
C30_SavesKeepLatest ==
    store.pc = "ready" =>
        /\ DOMAIN store.last # {} => store.file.exists
        /\ NoDuplicateKeys(FileTests(store.file))
        /\ DictKeys(FileTests(store.file)) = DictKeys(FileTests(store.init)) \cup DOMAIN store.last
        /\ \A n \in DOMAIN store.last : DictGet(FileTests(store.file), n) = store.last[n]
        /\ \A n \in DictKeys(FileTests(store.init)) \ DOMAIN store.last :
              DictGet(FileTests(store.file), n) = DictGet(FileTests(store.init), n)
        /\ store.file.exists =>
              Header(store.file.hashes) =
                 Header(IF store.init.exists THEN store.init.hashes ELSE NewHashes)
        /\ (store.name \in DOMAIN store.last) =>
              (store.outcome = "returned" /\ store.entry = store.last[store.name])

\* after two calls on a directory with a generated file, the load of the
\* saved name returned the saved entry and the generated entries are still
\* there
C30_Witness ==
    /\ store.pc = "ready" /\ store.calls = 2 /\ store.init.exists
    /\ store.name = "lut_identity" /\ store.outcome = "returned"
    /\ store.entry = SavedEntry(<<<<0, 0, 0>>>>)
    /\ DOMAIN store.last = {"lut_identity"}
    /\ DictHas(FileTests(store.file), "cdl")
    /\ Len(FileTests(store.file)) = 3

CdlSop(k) == SopStage(cdl.pixel[k], cdl.grade.slope[k], cdl.grade.offset[k])

\* C1: for every finite pixel and every grade with power > 0, each output
\* channel of apply_cdl lies in [0,1].
C1_OutputInUnitCube == cdl.pc = "done" => InUnitCube(cdl.out)

C3_NonPositiveSopGivesZero ==
    (cdl.pc = "done" /\ FEq(cdl.grade.sat, One)) =>
        \A k \in 1..3 : FLe(CdlSop(k), PosZero) => cdl.out[k] = PosZero

C3_Witness ==
    /\ cdl.pc = "done" /\ cdl.grade = CDL_CONTRAST
    /\ cdl.pixel = Triple(PosZero, PosZero, PosZero)
    /\ cdl.bases = Triple(PosZero, PosZero, PosZero)
    /\ cdl.out = Triple(PosZero, PosZero, PosZero)

\* C4: the identity grade returns every pixel of [0,1]^3 unchanged.
C4_IdentityUnchanged ==
    (cdl.pc = "done" /\ cdl.grade = CDL_IDENTITY /\ InUnitCube(cdl.pixel)) =>
        /\ cdl.out = cdl.pixel
        /\ cdl.bases = <<>>

C4_Witness ==
    /\ cdl.pc = "done" /\ cdl.grade = CDL_IDENTITY
    /\ cdl.pixel = Triple(Half, One, PosZero)
    /\ cdl.out = cdl.pixel

\* C5: for the warm-up grade the engine's output equals apply_cdl_reference
\* within rtol 1e-4 / atol 1e-6 on every pixel of the 16x16 RGB ramp.
C5_WarmupMatchesReference ==
    (cdl.pc = "done" /\ cdl.grade = CDL_WARMUP /\ cdl.pixel \in RampPixels) =>
        AllClose(cdl.out,
                 apply_cdl_reference(cdl.pixel, cdl.grade.slope, cdl.grade.offset,
                                     cdl.grade.power, cdl.grade.sat),
                 RTOL, ATOL)
====
